---- MODULE Spec2Model ----
(***************************************************************************)
(* dify-cron: the 'Dify Apps Sheet' table kept by SheetManager, the sync   *)
(* pass (syncDifyApps -> SheetManager.syncApps) that merges the remote app *)
(* list into it, the scheduler pass (checkAndRunCronJobs) that runs the    *)
(* rows that are due, the cron matcher (isCronMatch), and manual edits of  *)
(* the sheet by its user.                                                  *)
(*                                                                         *)
(* Spec is the sync pass with the user, SpecCron the scheduler pass with   *)
(* the user, SpecMatch single calls of isCronMatch.                        *)
(*                                                                         *)
(* A data row of the sheet is a sequence of cells laid out by the header   *)
(* row.  A cell holds a string, or a boolean (checkbox); the two booleans  *)
(* are written CellTrue and CellFalse.  Every Spreadsheet call is one step *)
(* of the model: the sheet is shared with its user, whose edits land       *)
(* between the calls of a pass.                                            *)
(***************************************************************************)
EXTENDS Integers, Sequences, FiniteSets, TLC

----------------------------------------------------------------------------
(* Bounds *)

\* sync passes started in one behaviour; pass n stamps its rows with Iso(n)
MaxSyncs == 1
\* manual edits of a cell in one behaviour
MaxEdits == 1
\* length of the remote app list one pass receives
MaxApps == 2
\* scheduler passes started in one behaviour
MaxCrons == 2

----------------------------------------------------------------------------
(* Cells and columns *)

CellTrue == "<true>"
CellFalse == "<false>"

SHEET_COLUMNS ==
  [Enabled |-> "Enabled", ID |-> "ID", Name |-> "Name",
   Description |-> "Description", APISecret |-> "API Secret",
   CronMinutes |-> "Cron Minutes", CronHours |-> "Cron Hours",
   CronDayOfMonth |-> "Cron Day of Month", CronMonth |-> "Cron Month",
   CronDayOfWeek |-> "Cron Day of Week", Args |-> "Args",
   LastSync |-> "Last Sync", LastRun |-> "Last Run"]

\* Object.values(SHEET_COLUMNS)
DefaultHeaders ==
  << "Enabled", "ID", "Name", "Description", "API Secret", "Cron Minutes",
     "Cron Hours", "Cron Day of Month", "Cron Month", "Cron Day of Week",
     "Args", "Last Sync", "Last Run" >>

\* a sheet edited by hand: columns moved, a column of its own, no Last Run
MovedHeaders ==
  << "ID", "Enabled", "Memo", "Name", "Description", "Cron Minutes",
     "Cron Hours", "Cron Day of Month", "Cron Month", "Cron Day of Week",
     "Args", "API Secret", "Last Sync" >>

\* the header rows the constructor may find in the sheet it opens
HeaderSchemas == {DefaultHeaders, MovedHeaders}

\* new Date().toISOString() of the n-th pass
Iso(n) == "t" \o ToString(n)

----------------------------------------------------------------------------
(* Row codec *)

\* this.#headers.indexOf(columnName), 0-based, -1 when absent
getColumnIndex(hs, columnName) ==
  IF \E i \in 1..Len(hs) : hs[i] = columnName
    THEN (CHOOSE i \in 1..Len(hs) :
            hs[i] = columnName /\ \A j \in 1..(i - 1) : hs[j] # columnName) - 1
    ELSE -1

\* a lookup by the position the column has in SHEET_COLUMNS
getColumnValueByPosition(hs, row, columnName) ==
  LET index == getColumnIndex(DefaultHeaders, columnName)
  IN IF index >= 0 /\ index < Len(row) THEN row[index + 1] ELSE ""

\* getColumnValue of getAllRows: the cell of the named column, '' when absent
getColumnValue(hs, row, columnName) ==
  LET index == getColumnIndex(hs, columnName)
  IN IF index >= 0 /\ index < Len(row) THEN row[index + 1] ELSE ""

\* Boolean(v) of a cell
ToBoolean(v) == v \notin {CellFalse, ""}

\* String(v || '') of a cell
ToStringOrEmpty(v) ==
  IF v \in {CellFalse, ""} THEN "" ELSE IF v = CellTrue THEN "true" ELSE v

\* the row mapper of getAllRows
DecodeRow(hs, row) ==
  [enabled |-> ToBoolean(getColumnValue(hs, row, SHEET_COLUMNS.Enabled)),
   id |-> ToStringOrEmpty(getColumnValue(hs, row, SHEET_COLUMNS.ID)),
   name |-> ToStringOrEmpty(getColumnValue(hs, row, SHEET_COLUMNS.Name)),
   description |-> ToStringOrEmpty(getColumnValue(hs, row, SHEET_COLUMNS.Description)),
   apiSecret |-> ToStringOrEmpty(getColumnValue(hs, row, SHEET_COLUMNS.APISecret)),
   cronMinutes |-> ToStringOrEmpty(getColumnValue(hs, row, SHEET_COLUMNS.CronMinutes)),
   cronHours |-> ToStringOrEmpty(getColumnValue(hs, row, SHEET_COLUMNS.CronHours)),
   cronDayOfMonth |-> ToStringOrEmpty(getColumnValue(hs, row, SHEET_COLUMNS.CronDayOfMonth)),
   cronMonth |-> ToStringOrEmpty(getColumnValue(hs, row, SHEET_COLUMNS.CronMonth)),
   cronDayOfWeek |-> ToStringOrEmpty(getColumnValue(hs, row, SHEET_COLUMNS.CronDayOfWeek)),
   args |-> ToStringOrEmpty(getColumnValue(hs, row, SHEET_COLUMNS.Args)),
   lastSync |-> ToStringOrEmpty(getColumnValue(hs, row, SHEET_COLUMNS.LastSync)),
   lastRun |-> ToStringOrEmpty(getColumnValue(hs, row, SHEET_COLUMNS.LastRun))]

\* getAllRows when the sheet can be read: every data row, decoded
getAllRows(hs, rows) == [i \in 1..Len(rows) |-> DecodeRow(hs, rows[i])]

\* the value setColumnValue stores for a header column, '' for a column that
\* is not one of SHEET_COLUMNS
CellOf(r, columnName) ==
  CASE columnName = SHEET_COLUMNS.Enabled -> IF r.enabled THEN CellTrue ELSE CellFalse
    [] columnName = SHEET_COLUMNS.ID -> r.id
    [] columnName = SHEET_COLUMNS.Name -> r.name
    [] columnName = SHEET_COLUMNS.Description -> r.description
    [] columnName = SHEET_COLUMNS.APISecret -> r.apiSecret
    [] columnName = SHEET_COLUMNS.CronMinutes -> r.cronMinutes
    [] columnName = SHEET_COLUMNS.CronHours -> r.cronHours
    [] columnName = SHEET_COLUMNS.CronDayOfMonth -> r.cronDayOfMonth
    [] columnName = SHEET_COLUMNS.CronMonth -> r.cronMonth
    [] columnName = SHEET_COLUMNS.CronDayOfWeek -> r.cronDayOfWeek
    [] columnName = SHEET_COLUMNS.Args -> r.args
    [] columnName = SHEET_COLUMNS.LastSync -> r.lastSync
    [] columnName = SHEET_COLUMNS.LastRun -> r.lastRun
    [] OTHER -> ""

\* a layout in the order of SHEET_COLUMNS, whatever the header row
EncodeRowInOrder(hs, r) ==
  [i \in 1..Len(hs) |->
     IF i <= Len(DefaultHeaders) THEN CellOf(r, DefaultHeaders[i]) ELSE ""]

\* the row layout of syncApps: one cell per header column.  setColumnValue
\* stores at indexOf(columnName), the first column of that name.
EncodeRow(hs, r) ==
  [i \in 1..Len(hs) |->
     IF getColumnIndex(hs, hs[i]) = i - 1 THEN CellOf(r, hs[i]) ELSE ""]

EncodeRows(hs, rs) == [i \in 1..Len(rs) |-> EncodeRow(hs, rs[i])]

----------------------------------------------------------------------------
(* The sheet *)

\* a row whose cells are all empty
IsBlank(row) == \A i \in 1..Len(row) : row[i] = ""

\* the data rows up to sheet.getLastRow(), the last row that has content
RECURSIVE UpToLastRow(_)
UpToLastRow(rows) ==
  IF Len(rows) = 0 THEN rows
  ELSE IF IsBlank(rows[Len(rows)]) THEN UpToLastRow(SubSeq(rows, 1, Len(rows) - 1))
  ELSE rows

\* a clear that stops one row short of numRows
clearContentShort(rows, numRows) ==
  UpToLastRow([i \in 1..Len(rows) |->
                 IF i < numRows THEN [j \in 1..Len(rows[i]) |-> ""] ELSE rows[i]])

\* getRange(2, 1, numRows, headers.length).clearContent()
clearContent(rows, numRows) ==
  UpToLastRow([i \in 1..Len(rows) |->
                 IF i <= numRows THEN [j \in 1..Len(rows[i]) |-> ""] ELSE rows[i]])

\* getRange(startRow = 2, 1, values.length, headers.length).setValues(values)
setValues(rows, values) ==
  UpToLastRow([i \in 1..(IF Len(rows) > Len(values) THEN Len(rows) ELSE Len(values)) |->
                 IF i <= Len(values) THEN values[i] ELSE rows[i]])

\* getRange(sheetRow, column).setValue(v) on data row i, 0-based column index;
\* a row below the last row of the sheet comes into being with this one cell
setValue(rows, i, index, v) ==
  LET width == IF Len(rows) > 0 THEN Len(rows[1]) ELSE index + 1
      grown == [k \in 1..(IF i > Len(rows) THEN i ELSE Len(rows)) |->
                  IF k <= Len(rows) THEN rows[k] ELSE [j \in 1..width |-> ""]]
  IN UpToLastRow([grown EXCEPT ![i] = [@ EXCEPT ![index + 1] = v]])

----------------------------------------------------------------------------
(* The merge of syncApps *)

\* a missing description of the remote app (null in the API response)
NoDescription == "<null>"

\* app.description || ''
DescriptionOf(app) ==
  IF app.description \in {NoDescription, ""} THEN "" ELSE app.description

\* syncApps without its guard
EmptyGuardOff(list) == FALSE

\* the guard of syncApps: apps.length === 0
EmptyGuard(list) == Len(list) = 0

\* existingRowMap: id -> the row set last for that id; rows without id are
\* left out
existingRowMap(rows) ==
  [id \in {rows[i].id : i \in {j \in 1..Len(rows) : rows[j].id # ""}} |->
     rows[CHOOSE i \in 1..Len(rows) :
            rows[i].id = id /\ \A j \in (i + 1)..Len(rows) : rows[j].id # id]]

\* existingRowMap.delete(id)
MapDelete(map, id) == [x \in (DOMAIN map) \ {id} |-> map[x]]

\* an update that resets lastRun as it does apiSecret
UpdatedRowResetsLastRun(existingRow, app, t) ==
  [existingRow EXCEPT !.name = app.name,
                      !.description = DescriptionOf(app),
                      !.apiSecret = "",
                      !.lastSync = t,
                      !.lastRun = ""]

\* an update that leaves apiSecret as the row has it
UpdatedRowKeepsSecret(existingRow, app, t) ==
  [existingRow EXCEPT !.name = app.name,
                      !.description = DescriptionOf(app),
                      !.lastSync = t]

\* the row pushed for an app that has a row in the map
UpdatedRow(existingRow, app, t) ==
  [existingRow EXCEPT !.name = app.name,
                      !.description = DescriptionOf(app),
                      !.apiSecret = "",
                      !.lastSync = t]

\* a new row that comes up enabled
NewRowEnabled(app, t) ==
  [enabled |-> TRUE, id |-> app.id, name |-> app.name,
   description |-> DescriptionOf(app), apiSecret |-> "",
   cronMinutes |-> "", cronHours |-> "", cronDayOfMonth |-> "",
   cronMonth |-> "", cronDayOfWeek |-> "", args |-> "",
   lastSync |-> t, lastRun |-> ""]

\* the row pushed for an app that has no row in the map
NewRow(app, t) ==
  [enabled |-> FALSE, id |-> app.id, name |-> app.name,
   description |-> DescriptionOf(app), apiSecret |-> "",
   cronMinutes |-> "", cronHours |-> "", cronDayOfMonth |-> "",
   cronMonth |-> "", cronDayOfWeek |-> "", args |-> "",
   lastSync |-> t, lastRun |-> ""]

\* the loop over apps from entry k on, with the map as it is at entry k
RECURSIVE MergeFrom(_, _, _, _)
MergeFrom(list, k, map, t) ==
  IF k > Len(list) THEN << >>
  ELSE << IF list[k].id \in DOMAIN map
            THEN UpdatedRow(map[list[k].id], list[k], t)
            ELSE NewRow(list[k], t) >>
       \o MergeFrom(list, k + 1, MapDelete(map, list[k].id), t)

\* mergedData of syncApps
Merge(rows, list, t) == MergeFrom(list, 1, existingRowMap(rows), t)

----------------------------------------------------------------------------
(* The cron matcher: isCronMatch *)

\* the characters of the schedule texts of the model, one string each
Chars(text) ==
  CASE text = "" -> << >>
    [] text = "*" -> << "*" >>
    [] text = "0" -> << "0" >>
    [] text = "1" -> << "1" >>
    [] text = "2" -> << "2" >>
    [] text = "30" -> << "3", "0" >>
    [] text = "35" -> << "3", "5" >>
    [] text = "1-5" -> << "1", "-", "5" >>
    [] text = "*/5" -> << "*", "/", "5" >>
    [] text = "5" -> << "5" >>
    [] text = "6" -> << "6" >>
    [] text = "5,10,15" -> << "5", ",", "1", "0", ",", "1", "5" >>
    [] text = "10,35,55" -> << "1", "0", ",", "3", "5", ",", "5", "5" >>
    [] text = "1-5,30" -> << "1", "-", "5", ",", "3", "0" >>
    [] text = "30-40" -> << "3", "0", "-", "4", "0" >>
    [] text = "10-30" -> << "1", "0", "-", "3", "0" >>
    [] text = "5-1" -> << "5", "-", "1" >>
    [] text = "40-30" -> << "4", "0", "-", "3", "0" >>
    [] text = "*/10" -> << "*", "/", "1", "0" >>
    [] text = "*/7" -> << "*", "/", "7" >>
    [] text = "*/1" -> << "*", "/", "1" >>
    [] text = "*/0" -> << "*", "/", "0" >>
    [] text = "*/-5" -> << "*", "/", "-", "5" >>
    [] text = "*/x" -> << "*", "/", "x" >>
    [] text = "*/" -> << "*", "/" >>
    [] text = "10-40/10" -> << "1", "0", "-", "4", "0", "/", "1", "0" >>
    [] text = "1-10/3" -> << "1", "-", "1", "0", "/", "3" >>
    [] text = "40-10/10" -> << "4", "0", "-", "1", "0", "/", "1", "0" >>
    [] text = "0-59/15" -> << "0", "-", "5", "9", "/", "1", "5" >>
    [] text = "5/2" -> << "5", "/", "2" >>
    [] text = "35/5" -> << "3", "5", "/", "5" >>
    [] text = "x/5" -> << "x", "/", "5" >>
    [] text = "-5" -> << "-", "5" >>
    [] text = "3-" -> << "3", "-" >>
    [] text = "5x" -> << "5", "x" >>
    [] text = "x" -> << "x" >>
    [] text = "abc" -> << "a", "b", "c" >>
    [] text = "a-5" -> << "a", "-", "5" >>
    [] text = "3-b" -> << "3", "-", "b" >>
    [] text = " 5 " -> << " ", "5", " " >>
    [] text = "05" -> << "0", "5" >>

\* the value of a decimal digit, -1 for any other character
DigitOf(c) ==
  CASE c = "0" -> 0 [] c = "1" -> 1 [] c = "2" -> 2 [] c = "3" -> 3
    [] c = "4" -> 4 [] c = "5" -> 5 [] c = "6" -> 6 [] c = "7" -> 7
    [] c = "8" -> 8 [] c = "9" -> 9 [] OTHER -> -1

\* a JavaScript number that the matcher computes: << n >>, or NaN
NaN == << >>

\* s.includes(c)
Includes(s, c) == \E i \in 1..Len(s) : s[i] = c

\* s.split(c): the pieces of s between the occurrences of c
RECURSIVE Split(_, _)
Split(s, c) ==
  IF ~Includes(s, c) THEN << s >>
  ELSE LET i == CHOOSE k \in 1..Len(s) :
                  s[k] = c /\ \A j \in 1..(k - 1) : s[j] # c
       IN << SubSeq(s, 1, i - 1) >> \o Split(SubSeq(s, i + 1, Len(s)), c)

\* s without the white space at its ends
RECURSIVE Trim(_)
Trim(s) ==
  IF Len(s) > 0 /\ s[1] = " " THEN Trim(Tail(s))
  ELSE IF Len(s) > 0 /\ s[Len(s)] = " " THEN Trim(SubSeq(s, 1, Len(s) - 1))
  ELSE s

\* the number written by the decimal digits at the head of s, after acc;
\* any is whether a digit has been read
RECURSIVE DigitsFrom(_, _, _)
DigitsFrom(s, acc, any) ==
  IF Len(s) > 0 /\ DigitOf(s[1]) >= 0
    THEN DigitsFrom(Tail(s), 10 * acc + DigitOf(s[1]), TRUE)
    ELSE [value |-> acc, any |-> any, rest |-> s]

\* s after an optional sign, and the sign
Unsigned(s) == IF Len(s) > 0 /\ s[1] \in {"+", "-"} THEN Tail(s) ELSE s
SignOf(s) == IF Len(s) > 0 /\ s[1] = "-" THEN -1 ELSE 1

\* a parse that drops the sign
parseIntUnsigned(s) ==
  LET t == Trim(s)
      d == DigitsFrom(Unsigned(t), 0, FALSE)
  IN IF d.any THEN << d.value >> ELSE NaN

\* Number.parseInt(s, 10): leading white space, a sign, then the longest run
\* of digits; what follows the digits is ignored; NaN without a digit
parseInt(s) ==
  LET t == Trim(s)
      d == DigitsFrom(Unsigned(t), 0, FALSE)
  IN IF d.any THEN << SignOf(t) * d.value >> ELSE NaN

\* Number(s) on decimal texts: the empty text is 0, a signed run of digits
\* is its value, a text with any other character is NaN
ToNumber(s) ==
  LET t == Trim(s)
      d == DigitsFrom(Unsigned(t), 0, FALSE)
  IN IF Len(t) = 0 THEN << 0 >>
     ELSE IF d.any /\ Len(d.rest) = 0 THEN << SignOf(t) * d.value >>
     ELSE NaN

\* element k of an array, undefined (NaN as a number) past its end
ItemOrNaN(list, k) == IF k <= Len(list) THEN list[k] ELSE NaN

\* a range that leaves its end out
InRangeExclusive(dateValue, start, end) ==
  /\ start # NaN /\ end # NaN
  /\ dateValue >= start[1] /\ dateValue < end[1]

\* dateValue >= start && dateValue <= end: false when a bound is NaN
InRange(dateValue, start, end) ==
  /\ start # NaN /\ end # NaN
  /\ dateValue >= start[1] /\ dateValue <= end[1]

\* a term that takes a value with a step for the value
PartMatchBareStep(part, dateValue) ==
  IF Includes(part, "/")
    THEN LET range == Split(part, "/")[1]
             step == parseInt(Split(part, "/")[2])
             bounds == [k \in 1..Len(Split(range, "-")) |->
                          ToNumber(Split(range, "-")[k])]
         IN IF step = NaN \/ step[1] <= 0 THEN FALSE
            ELSE IF range = << "*" >> THEN dateValue % step[1] = 0
            ELSE IF Includes(range, "-")
              THEN /\ InRange(dateValue, ItemOrNaN(bounds, 1), ItemOrNaN(bounds, 2))
                   /\ (dateValue - bounds[1][1]) % step[1] = 0
            ELSE parseInt(range) = << dateValue >>
  ELSE IF Includes(part, "-")
    THEN LET bounds == [k \in 1..Len(Split(part, "-")) |->
                          ToNumber(Split(part, "-")[k])]
         IN InRange(dateValue, ItemOrNaN(bounds, 1), ItemOrNaN(bounds, 2))
  ELSE parseInt(part) = << dateValue >>

\* the callback of some(): one comma-separated part against dateValue
PartMatch(part, dateValue) ==
  IF Includes(part, "/")
    THEN LET range == Split(part, "/")[1]
             step == parseInt(Split(part, "/")[2])
             bounds == [k \in 1..Len(Split(range, "-")) |->
                          ToNumber(Split(range, "-")[k])]
         IN IF step = NaN \/ step[1] <= 0 THEN FALSE
            ELSE IF range = << "*" >> THEN dateValue % step[1] = 0
            ELSE IF Includes(range, "-")
              THEN /\ InRange(dateValue, ItemOrNaN(bounds, 1), ItemOrNaN(bounds, 2))
                   /\ (dateValue - bounds[1][1]) % step[1] = 0
            ELSE FALSE
  ELSE IF Includes(part, "-")
    THEN LET bounds == [k \in 1..Len(Split(part, "-")) |->
                          ToNumber(Split(part, "-")[k])]
         IN InRange(dateValue, ItemOrNaN(bounds, 1), ItemOrNaN(bounds, 2))
  ELSE parseInt(part) = << dateValue >>

\* a list that matches only when every term does
EveryPartMatches(cronValue, dateValue) ==
  \A k \in 1..Len(Split(Chars(cronValue), ",")) :
     PartMatch(Split(Chars(cronValue), ",")[k], dateValue)

\* cronValue.split(',').some(...)
SomePartMatches(cronValue, dateValue) ==
  \E k \in 1..Len(Split(Chars(cronValue), ",")) :
     PartMatch(Split(Chars(cronValue), ",")[k], dateValue)

\* the getters of Date; getMonth() counts the months from 0, getDay() the
\* days of the week from Sunday = 0
getMinutes(date) == date.minute
getHours(date) == date.hour
getDate(date) == date.day
getMonth(date) == date.month - 1
getDay(date) == date.weekday

\* cronParts and dateParts of isCronMatch
cronParts(cronConfig) ==
  << cronConfig.cronMinutes, cronConfig.cronHours, cronConfig.cronDayOfMonth,
     cronConfig.cronMonth, cronConfig.cronDayOfWeek >>

dateParts(date) ==
  << getMinutes(date), getHours(date), getDate(date), getMonth(date) + 1,
     getDay(date) >>

\* a test that lets only '*' through
IsWildcardStarOnly(cronValue) == cronValue = "*"

\* line 161: the field is skipped
IsWildcard(cronValue) == cronValue = "" \/ cronValue = "*"

\* a loop that answers true as soon as one field matches
RECURSIVE CronLoopAny(_, _, _)
CronLoopAny(cron, parts, i) ==
  IF i > Len(cron) THEN FALSE
  ELSE IF IsWildcard(cron[i]) THEN TRUE
  ELSE IF SomePartMatches(cron[i], parts[i]) THEN TRUE
  ELSE CronLoopAny(cron, parts, i + 1)

\* the loop of isCronMatch from field i on
RECURSIVE CronLoop(_, _, _)
CronLoop(cron, parts, i) ==
  IF i > Len(cron) THEN TRUE
  ELSE IF IsWildcard(cron[i]) THEN CronLoop(cron, parts, i + 1)
  ELSE IF ~SomePartMatches(cron[i], parts[i]) THEN FALSE
  ELSE CronLoop(cron, parts, i + 1)

\* a matcher that answers false for a row already run in this minute
isCronMatchOncePerMinute(date, cronConfig) ==
  /\ CronLoop(cronParts(cronConfig), dateParts(date), 1)
  /\ cronConfig.lastRun # date.iso

isCronMatch(date, cronConfig) ==
  CronLoop(cronParts(cronConfig), dateParts(date), 1)

----------------------------------------------------------------------------
(* Inputs *)

\* what the remote side may list
RemoteApps ==
  { [id |-> "a", name |-> "n2", description |-> NoDescription],
    [id |-> "b", name |-> "n1", description |-> "d1"] }

AppLists == UNION { [1..n -> RemoteApps] : n \in 0..MaxApps }

\* rows a sheet holds from earlier use: one configured by its user and run,
\* one that has its secret entered but is not scheduled yet
RowA ==
  [enabled |-> TRUE, id |-> "a", name |-> "n1", description |-> "d1",
   apiSecret |-> "k", cronMinutes |-> "*/5", cronHours |-> "*",
   cronDayOfMonth |-> "*", cronMonth |-> "*", cronDayOfWeek |-> "1-5",
   args |-> "{}", lastSync |-> "t0", lastRun |-> "t0"]

RowB ==
  [enabled |-> FALSE, id |-> "b", name |-> "n1", description |-> "d1",
   apiSecret |-> "kb", cronMinutes |-> "", cronHours |-> "",
   cronDayOfMonth |-> "", cronMonth |-> "", cronDayOfWeek |-> "",
   args |-> "", lastSync |-> "t0", lastRun |-> ""]

InitialRows == { << >>, << RowA >>, << RowB, RowA >> }

\* the cells the user of the sheet edits, and what they enter
UserColumns ==
  {SHEET_COLUMNS.Enabled, SHEET_COLUMNS.CronMinutes, SHEET_COLUMNS.Args}

UserValues(columnName) ==
  CASE columnName = SHEET_COLUMNS.Enabled -> {CellTrue, CellFalse}
    [] columnName = SHEET_COLUMNS.CronMinutes -> {"30"}
    [] OTHER -> {"{\"q\":1}"}

\* the errors client.getApps() throws: the request does not get through, the
\* login yields no token, the response carries no list
FetchErrors ==
  {"API request error", "No token in response", "Invalid apps data in response"}

\* the errors of the entry points themselves
ConfigError == "Missing required configuration"
OpenError == "Failed to get or create spreadsheet"

\* one call of a DifyClient method, as the entry point made it; row is the
\* position of the row it was made for, 0 for getApps
Call(fn, row, appId, apiKey, args, responseMode, user, ok) ==
  [fn |-> fn, row |-> row, appId |-> appId, apiKey |-> apiKey, args |-> args,
   responseMode |-> responseMode, user |-> user, ok |-> ok]

getAppsCall(ok) == Call("getApps", 0, "", "", "", "", "", ok)

\* rows of a sheet in use by the scheduler: one run with admin credentials at
\* every instant, one due on Mondays at minute 35 whose args are not JSON
RowC ==
  [enabled |-> TRUE, id |-> "c", name |-> "n3", description |-> "",
   apiSecret |-> "", cronMinutes |-> "*", cronHours |-> "*",
   cronDayOfMonth |-> "*", cronMonth |-> "*", cronDayOfWeek |-> "*",
   args |-> "", lastSync |-> "t0", lastRun |-> ""]

RowD ==
  [enabled |-> TRUE, id |-> "d", name |-> "n4", description |-> "",
   apiSecret |-> "", cronMinutes |-> "35", cronHours |-> "*",
   cronDayOfMonth |-> "*", cronMonth |-> "*", cronDayOfWeek |-> "1",
   args |-> "oops", lastSync |-> "t0", lastRun |-> ""]

\* the sheets a scheduler pass may find.  The last one is what a sync pass
\* with the list [a] leaves of << RowB, RowA >> when its clear fails: the
\* merged row of a, and under it the old row of a
CronInitialRows ==
  { << RowD, RowB, RowA, RowC >>,
    << UpdatedRow(RowA, [id |-> "a", name |-> "n2", description |-> NoDescription],
                  Iso(1)), RowA >> }

\* the args texts JSON.parse accepts
ValidArgs == {"{}", "{\"q\":1}"}

\* instants at which a pass starts, in the script's time zone: the minute,
\* the hour, the day of the month, the month (1 = January) and the day of the
\* week (0 = Sunday); iso is what toISOString() gives for the instant
Monday1435 ==
  [iso |-> "2023-01-23T14:35", minute |-> 35, hour |-> 14, day |-> 23,
   month |-> 1, weekday |-> 1]

Tuesday1435 ==
  [iso |-> "2023-01-24T14:35", minute |-> 35, hour |-> 14, day |-> 24,
   month |-> 1, weekday |-> 2]

Sunday0000 ==
  [iso |-> "2023-05-07T00:00", minute |-> 0, hour |-> 0, day |-> 7,
   month |-> 5, weekday |-> 0]

Saturday2305 ==
  [iso |-> "2023-12-02T23:05", minute |-> 5, hour |-> 23, day |-> 2,
   month |-> 12, weekday |-> 6]

Instants == {Monday1435, Tuesday1435, Sunday0000, Saturday2305}

\* the instants of the scheduler passes: every row but the disabled one is
\* due at the first, one row only at the second
CronInstants == {Monday1435, Sunday0000}

\* no Date yet
NoInstant ==
  [iso |-> "", minute |-> 0, hour |-> 0, day |-> 1, month |-> 1, weekday |-> 0]

\* the texts a schedule field is given to isCronMatch with
CronTexts == {"", "*", "35", "1", "2", "1-5", "*/5"}

\* the row isCronMatch is called with: the five fields of a schedule
CronConfig(fields) ==
  [RowB EXCEPT !.enabled = TRUE, !.cronMinutes = fields[1],
               !.cronHours = fields[2], !.cronDayOfMonth = fields[3],
               !.cronMonth = fields[4], !.cronDayOfWeek = fields[5]]

CronConfigs == {CronConfig(fields) : fields \in [1..5 -> CronTexts]}

\* the texts one schedule field is given to isCronMatch with, the other four
\* fields being wildcards: single values and lists, ranges, stepped wildcards,
\* stepped ranges, and texts that are none of these
ListTexts == {"5", "6", "35", "5,10,15", "10,35,55"}

RangeTexts == {"1-5", "30-40", "10-30", "5-1", "40-30"}

StepTexts == {"*/5", "*/10", "*/7", "*/1", "*/0", "*/-5", "*/x", "*/"}

SteppedRangeTexts ==
  {"10-40/10", "1-10/3", "40-10/10", "0-59/15", "5/2", "35/5", "x/5"}

MalformedTexts == {"-5", "3-", "5x", "x", "abc", "a-5", "3-b"}

FieldTexts ==
  ListTexts \cup RangeTexts \cup StepTexts \cup SteppedRangeTexts
    \cup MalformedTexts \cup {"1-5,30", " 5 ", "05"}

\* the minutes of an hour
Minutes == 0..59

DigitTexts == << "0", "1", "2", "3", "4", "5", "6", "7", "8", "9" >>

\* Monday 2023-01-23 at 14 hours and n minutes
Monday14(n) ==
  [Monday1435 EXCEPT
     !.iso = "2023-01-23T14:" \o DigitTexts[(n \div 10) + 1]
               \o DigitTexts[(n % 10) + 1],
     !.minute = n]

FieldInstants == {Monday14(n) : n \in Minutes}

\* the row isCronMatch is called with: one field of the model's texts
FieldConfigs ==
  {CronConfig(<< text, "*", "*", "*", "*" >>) : text \in FieldTexts}

----------------------------------------------------------------------------
(* State *)

VARIABLES
  headers,       \* this.#headers
  table,         \* the data rows of the sheet, below the header row
  pc,            \* where the sync pass is: "idle", "clear", "write"
  apps,          \* the list syncApps was called with
  existingRows,  \* syncApps: existingRows
  mergedData,    \* syncApps: mergedData
  now,           \* syncApps: now
  syncs,         \* sync passes started
  edits,         \* manual edits made
  result,        \* how the last pass ended
  errors,        \* the calls that failed in the current pass
  before,        \* history: the data rows when the current pass began
  seen,          \* history: before, with the edits made during the pass
  raised,        \* the error the last entry point threw to its caller, or ""
  logged,        \* the error of its 'Failed to ...' log line, or ""
  calls,         \* the DifyClient calls of the current pass
  cronPc,        \* where the scheduler pass is: "idle", "loop"
  cronRows,      \* checkAndRunCronJobs: rows
  idx,           \* the position in rows of the row the loop is at
  cronNow,       \* checkAndRunCronJobs: now
  attempts,      \* the positions of the rows whose try block was entered
  lastRuns,      \* the updateLastRun calls of the current pass
  failures,      \* the 'Failed to execute workflow for' lines of the pass
  crons,         \* scheduler passes started
  failedBefore,  \* history: the ids whose execution failed in the last pass
  instant,       \* isCronMatch: date
  config,        \* isCronMatch: cronConfig
  match,         \* isCronMatch: << result >>, << >> before the call
  original,      \* the row layout of syncApps: << row >>, << >> before it
  decoded,       \* getAllRows: << rows >>, << >> before the call
  triggers,      \* ScriptApp.getProjectTriggers(), in the order of creation
  created,       \* history: the create functions that have been called
  pending,       \* updateLastRun: << the setValue it is about to make >>
  token,         \* this.#token of the DifyClient, "" for null
  requests,      \* the UrlFetchApp.fetch calls of the last client call
  outcome,       \* the method last called on the client and how it ended
  sent           \* client calls made

syncVars == << headers, table, pc, apps, existingRows, mergedData, now, syncs,
               edits, result, errors, before, seen >>

entryVars == << raised, logged, calls >>

cronVars == << cronPc, cronRows, idx, cronNow, attempts, lastRuns, failures,
              crons, failedBefore >>

matchVars == << instant, config, match >>

codecVars == << original, decoded >>

triggerVars == << triggers, created >>

updateVars == << pending >>

clientVars == << token, requests, outcome, sent >>

\* the variables of the calls of single functions
callVars == << matchVars, codecVars, triggerVars, updateVars, clientVars >>

vars == << syncVars, entryVars, cronVars, callVars >>

\* no sync pass has run
SyncIdle ==
  /\ pc = "idle"
  /\ apps = << >>
  /\ existingRows = << >>
  /\ mergedData = << >>
  /\ now = ""
  /\ syncs = 0
  /\ edits = 0
  /\ result = "none"
  /\ errors = {}
  /\ before = << >>
  /\ seen = << >>
  /\ raised = ""
  /\ logged = ""
  /\ calls = << >>

\* no scheduler pass has run
CronIdle ==
  /\ cronPc = "idle"
  /\ cronRows = << >>
  /\ idx = 0
  /\ cronNow = NoInstant
  /\ attempts = << >>
  /\ lastRuns = << >>
  /\ failures = << >>
  /\ crons = 0
  /\ failedBefore = {}

\* isCronMatch has not been called
MatchIdle ==
  /\ instant = NoInstant
  /\ config = RowB
  /\ match = << >>

\* no row has been laid out or decoded on its own
CodecIdle ==
  /\ original = << >>
  /\ decoded = << >>

\* the project has no trigger
TriggerIdle ==
  /\ triggers = << >>
  /\ created = {}

\* updateLastRun is not between its read and its write
UpdateIdle == pending = << >>

\* the client has just been constructed
NoOutcome == [method |-> "", appId |-> "", raised |-> "", value |-> ""]

ClientIdle ==
  /\ token = ""
  /\ requests = << >>
  /\ outcome = NoOutcome
  /\ sent = 0

\* no function has been called on its own
CallIdle == MatchIdle /\ CodecIdle /\ TriggerIdle /\ UpdateIdle /\ ClientIdle

Init ==
  /\ headers \in HeaderSchemas
  /\ \E rs \in InitialRows : table = EncodeRows(headers, rs)
  /\ pc = "idle"
  /\ apps = << >>
  /\ existingRows = << >>
  /\ mergedData = << >>
  /\ now = ""
  /\ syncs = 0
  /\ edits = 0
  /\ result = "none"
  /\ errors = {}
  /\ before = << >>
  /\ seen = << >>
  /\ raised = ""
  /\ logged = ""
  /\ calls = << >>
  /\ CronIdle
  /\ CallIdle

----------------------------------------------------------------------------
(* The sync pass: syncDifyApps, then SheetManager.syncApps *)

\* a catch that logs the error of getApps and does not rethrow it
SyncFetchFailSwallowed ==
  /\ pc = "idle"
  /\ syncs < MaxSyncs
  /\ syncs' = syncs + 1
  /\ result' = "fetch_error"
  /\ errors' = {"fetch"}
  /\ \E error \in FetchErrors :
       /\ logged' = error
       /\ raised' = ""
  /\ calls' = << getAppsCall(FALSE) >>
  /\ UNCHANGED << headers, table, pc, apps, existingRows, mergedData, now,
                  edits, before, seen >>
  /\ UNCHANGED << cronVars, callVars >>

\* syncDifyApps: client.getApps() throws (transport, auth or invalid data);
\* the catch logs and rethrows, syncApps is not called
SyncFetchFail ==
  /\ pc = "idle"
  /\ syncs < MaxSyncs
  /\ syncs' = syncs + 1
  /\ result' = "fetch_error"
  /\ errors' = {"fetch"}
  /\ \E error \in FetchErrors :
       /\ logged' = error
       /\ raised' = error
  /\ calls' = << getAppsCall(FALSE) >>
  /\ UNCHANGED << headers, table, pc, apps, existingRows, mergedData, now,
                  edits, before, seen >>
  /\ UNCHANGED << cronVars, callVars >>

\* syncDifyApps: getDifyConfig() throws, a property being unset; no client
\* is built; the catch logs and rethrows
SyncConfigMissing ==
  /\ pc = "idle"
  /\ syncs < MaxSyncs
  /\ syncs' = syncs + 1
  /\ result' = "config_error"
  /\ errors' = {"config"}
  /\ logged' = ConfigError
  /\ raised' = ConfigError
  /\ calls' = << >>
  /\ UNCHANGED << headers, table, pc, apps, existingRows, mergedData, now,
                  edits, before, seen >>
  /\ UNCHANGED << cronVars, callVars >>

\* syncDifyApps: getApps() has returned and new SheetManager(SHEET_NAME)
\* throws; syncApps is not called; the catch logs and rethrows
SyncOpenFail ==
  /\ pc = "idle"
  /\ syncs < MaxSyncs
  /\ syncs' = syncs + 1
  /\ result' = "open_error"
  /\ errors' = {"open"}
  /\ logged' = OpenError
  /\ raised' = OpenError
  /\ calls' = << getAppsCall(TRUE) >>
  /\ UNCHANGED << headers, table, pc, apps, existingRows, mergedData, now,
                  edits, before, seen >>
  /\ UNCHANGED << cronVars, callVars >>

\* syncApps(list) with the guard taken: a warning is logged, nothing else
SyncSkipEmpty ==
  /\ pc = "idle"
  /\ syncs < MaxSyncs
  /\ \E list \in AppLists :
       /\ EmptyGuard(list)
       /\ apps' = list
  /\ syncs' = syncs + 1
  /\ result' = "skipped"
  /\ errors' = {}
  /\ UNCHANGED << headers, table, pc, existingRows, mergedData, now, edits,
                  before, seen >>
  /\ logged' = ""
  /\ raised' = ""
  /\ calls' = << getAppsCall(TRUE) >>
  /\ UNCHANGED << cronVars, callVars >>

\* syncApps(list) up to the merge: getAllRows (which returns no rows when
\* reading the sheet throws), now, existingRowMap, mergedData, totalRows.
\* The constructor has left a header row in the sheet, so the headers are not
\* set up again here.
SyncRead ==
  /\ pc = "idle"
  /\ syncs < MaxSyncs
  /\ \E list \in AppLists, readOk \in BOOLEAN :
       /\ ~EmptyGuard(list)
       /\ apps' = list
       /\ existingRows' = IF readOk THEN getAllRows(headers, table) ELSE << >>
       /\ errors' = IF readOk THEN {} ELSE {"read"}
       /\ now' = Iso(syncs + 1)
       /\ mergedData' = Merge(existingRows', list, now')
  /\ syncs' = syncs + 1
  /\ result' = "running"
  /\ pc' = IF Len(table) > 0 THEN "clear" ELSE "write"
  /\ before' = table
  /\ seen' = table
  /\ UNCHANGED << headers, table, edits >>
  /\ logged' = ""
  /\ raised' = ""
  /\ calls' = << getAppsCall(TRUE) >>
  /\ UNCHANGED << cronVars, callVars >>

\* syncApps(list) when a sheet call outside the inner try blocks throws
\* (getLastRow): the outer catch logs, the sheet is not touched
SyncThrow ==
  /\ pc = "idle"
  /\ syncs < MaxSyncs
  /\ \E list \in AppLists : ~EmptyGuard(list)
  /\ syncs' = syncs + 1
  /\ result' = "sync_error"
  /\ errors' = {"sync"}
  /\ UNCHANGED << headers, table, pc, apps, existingRows, mergedData, now,
                  edits, before, seen >>
  /\ logged' = ""
  /\ raised' = ""
  /\ calls' = << getAppsCall(TRUE) >>
  /\ UNCHANGED << cronVars, callVars >>

\* the clear of rows 2..totalRows; when it throws the error is logged and the
\* pass goes on to the write
SyncClear ==
  /\ pc = "clear"
  /\ \E ok \in BOOLEAN :
       /\ table' = IF ok THEN clearContent(table, Len(table)) ELSE table
       /\ errors' = IF ok THEN errors ELSE errors \cup {"clear"}
  /\ pc' = "write"
  /\ UNCHANGED << headers, apps, existingRows, mergedData, now, syncs, edits,
                  result, before, seen >>
  /\ UNCHANGED << entryVars, cronVars, callVars >>

\* the write of mergedData from row 2 on, skipped when mergedData is empty;
\* when it throws the error is logged; then 'Sync completed successfully'
SyncWrite ==
  /\ pc = "write"
  /\ \E ok \in BOOLEAN :
       /\ table' = IF Len(mergedData) > 0 /\ ok
                     THEN setValues(table, EncodeRows(headers, mergedData))
                     ELSE table
       /\ errors' = IF ok THEN errors ELSE errors \cup {"write"}
  /\ pc' = "idle"
  /\ result' = "completed"
  /\ existingRows' = << >>
  /\ mergedData' = << >>
  /\ now' = ""
  /\ apps' = << >>
  /\ before' = << >>
  /\ seen' = << >>
  /\ UNCHANGED << headers, syncs, edits >>
  /\ UNCHANGED << entryVars, cronVars, callVars >>

----------------------------------------------------------------------------
(* The user of the sheet *)

\* the user sets one cell of a data row: the checkbox, a schedule field, the
\* args.  Edits made after the last pass of a behaviour are left
\* out: no pass reads them.
UserEdit ==
  /\ edits < MaxEdits
  /\ pc # "idle" \/ syncs < MaxSyncs
  /\ \E i \in 1..Len(table), columnName \in UserColumns :
       /\ getColumnIndex(headers, columnName) >= 0
       /\ \E v \in UserValues(columnName) :
            /\ v # table[i][getColumnIndex(headers, columnName) + 1]
            /\ table' = setValue(table, i, getColumnIndex(headers, columnName), v)
  /\ edits' = edits + 1
  /\ seen' = IF pc = "idle" THEN seen ELSE table'
  /\ UNCHANGED << headers, pc, apps, existingRows, mergedData, now, syncs,
                  result, errors, before >>
  /\ UNCHANGED << entryVars, cronVars, callVars >>

Next ==
  \/ SyncConfigMissing
  \/ SyncFetchFail
  \/ SyncOpenFail
  \/ SyncSkipEmpty
  \/ SyncRead
  \/ SyncThrow
  \/ SyncClear
  \/ SyncWrite
  \/ UserEdit

Spec == Init /\ [][Next]_vars

TypeOK ==
  /\ headers \in HeaderSchemas
  /\ pc \in {"idle", "clear", "write"}
  /\ syncs \in 0..MaxSyncs
  /\ edits \in 0..MaxEdits
  /\ \A i \in 1..Len(table) : Len(table[i]) = Len(headers)

----------------------------------------------------------------------------
(* The scheduler pass: checkAndRunCronJobs *)

\* a payload that lets every args text through
ParseArgsLenient(args) ==
  IF args = "" \/ args \notin ValidArgs THEN << "{}" >> ELSE << args >>

\* row.args ? JSON.parse(row.args) : {} -- << the payload >>, written as JSON
\* text, or << >> when JSON.parse throws
ParseArgs(args) ==
  IF args = "" THEN << "{}" >>
  ELSE IF args \in ValidArgs THEN << args >>
  ELSE << >>

\* a loop that runs a row whatever its checkbox says
ShouldRunUnchecked(row, date) == isCronMatch(date, row)

\* lines 208-210: the row is enabled and due
ShouldRun(row, date) == row.enabled /\ isCronMatch(date, row)

\* a loop that always goes through the admin credentials
ExecutionCallAdmin(k, row, payload, ok) ==
  Call("executeWorkflow", k, row.id, "", payload, "", "", ok)

\* lines 216-228: the client call made for row k of rows
ExecutionCall(k, row, payload, ok) ==
  IF row.apiSecret # ""
    THEN Call("executeWorkflowWithApiKey", k, row.id, row.apiSecret, payload,
              "blocking", "cron-job-" \o row.id, ok)
    ELSE Call("executeWorkflow", k, row.id, "", payload, "", "", ok)

\* a try block that makes its call again when it throws
TryBlockCallsRetried(k, row, payload, ok) ==
  IF ok THEN << ExecutionCall(k, row, payload, ok) >>
  ELSE << ExecutionCall(k, row, payload, ok), ExecutionCall(k, row, payload, ok) >>

\* the client calls of one run of the try block: the one call, once
TryBlockCalls(k, row, payload, ok) == << ExecutionCall(k, row, payload, ok) >>

\* an updateLastRun placed after the catch
ReachesUpdateAlways(ok) == TRUE

\* line 230 is reached when the awaited call returned
ReachesUpdate(ok) == ok

\* a loop that ends at the first failure
AfterRowStopsOnFailure(k, n, ok) == IF ok THEN k + 1 ELSE n + 1

\* the position the loop goes to after row k of n, its try block having ended
\* well or not
AfterRow(k, n, ok) == k + 1

\* SheetManager.updateLastRun(appId, runTime) on the data rows
updateLastRun(hs, data, appId, runTime) ==
  LET found == {i \in 1..Len(data) : getAllRows(hs, data)[i].id = appId}
      lastRunColIndex == getColumnIndex(hs, SHEET_COLUMNS.LastRun)
  IN IF found = {} \/ lastRunColIndex = -1 THEN data
     ELSE setValue(data, CHOOSE i \in found : \A j \in found : i <= j,
                   lastRunColIndex, runTime)

\* new SheetManager(SHEET_NAME) throws: the catch logs and rethrows
CronOpenFail ==
  /\ cronPc = "idle"
  /\ crons < MaxCrons
  /\ crons' = crons + 1
  /\ logged' = OpenError
  /\ raised' = OpenError
  /\ calls' = << >>
  /\ UNCHANGED << cronPc, cronRows, idx, cronNow, attempts, lastRuns, failures,
                  failedBefore >>
  /\ UNCHANGED << syncVars, callVars >>

\* the rows are read, then getDifyConfig() throws: the catch logs and rethrows
CronConfigMissing ==
  /\ cronPc = "idle"
  /\ crons < MaxCrons
  /\ crons' = crons + 1
  /\ logged' = ConfigError
  /\ raised' = ConfigError
  /\ calls' = << >>
  /\ UNCHANGED << cronPc, cronRows, idx, cronNow, attempts, lastRuns, failures,
                  failedBefore >>
  /\ UNCHANGED << syncVars, callVars >>

\* lines 201-205: the rows are read (no rows when reading the sheet throws),
\* the client is built, now is taken
CronStart ==
  /\ cronPc = "idle"
  /\ crons < MaxCrons
  /\ crons' = crons + 1
  /\ \E readOk \in BOOLEAN :
       cronRows' = IF readOk THEN getAllRows(headers, table) ELSE << >>
  /\ cronNow' \in CronInstants
  /\ idx' = 1
  /\ cronPc' = "loop"
  /\ attempts' = << >>
  /\ lastRuns' = << >>
  /\ failures' = << >>
  /\ calls' = << >>
  /\ logged' = ""
  /\ raised' = ""
  /\ UNCHANGED << failedBefore, syncVars, callVars >>

\* one turn of the loop that leaves the row alone: not enabled, or not due
CronSkipRow ==
  /\ cronPc = "loop"
  /\ idx <= Len(cronRows)
  /\ ~ShouldRun(cronRows[idx], cronNow)
  /\ idx' = idx + 1
  /\ UNCHANGED << cronPc, cronRows, cronNow, attempts, lastRuns, failures,
                  crons, failedBefore >>
  /\ UNCHANGED << syncVars, entryVars, callVars >>

\* one turn of the loop whose JSON.parse throws: the catch logs
CronBadArgs ==
  /\ cronPc = "loop"
  /\ idx <= Len(cronRows)
  /\ ShouldRun(cronRows[idx], cronNow)
  /\ ParseArgs(cronRows[idx].args) = << >>
  /\ attempts' = Append(attempts, idx)
  /\ failures' = Append(failures, cronRows[idx].id)
  /\ idx' = AfterRow(idx, Len(cronRows), FALSE)
  /\ UNCHANGED << cronPc, cronRows, cronNow, lastRuns, crons, failedBefore >>
  /\ UNCHANGED << syncVars, entryVars, callVars >>

\* one turn of the loop that calls the client: the call returns and
\* updateLastRun follows, or it throws and the catch logs
CronExecute ==
  /\ cronPc = "loop"
  /\ idx <= Len(cronRows)
  /\ ShouldRun(cronRows[idx], cronNow)
  /\ ParseArgs(cronRows[idx].args) # << >>
  /\ attempts' = Append(attempts, idx)
  /\ \E ok \in BOOLEAN :
       /\ calls' = calls \o TryBlockCalls(idx, cronRows[idx],
                                           ParseArgs(cronRows[idx].args)[1], ok)
       /\ IF ReachesUpdate(ok)
            THEN /\ table' = updateLastRun(headers, table, cronRows[idx].id,
                                           cronNow.iso)
                 /\ lastRuns' = Append(lastRuns,
                                       [row |-> idx, appId |-> cronRows[idx].id,
                                        runTime |-> cronNow.iso])
            ELSE UNCHANGED << table, lastRuns >>
       /\ failures' = IF ok THEN failures
                      ELSE Append(failures, cronRows[idx].id)
       /\ idx' = AfterRow(idx, Len(cronRows), ok)
  /\ seen' = IF pc = "idle" \/ table' = table THEN seen ELSE table'
  /\ UNCHANGED << cronPc, cronRows, cronNow, crons, failedBefore >>
  /\ UNCHANGED << headers, pc, apps, existingRows, mergedData, now, syncs,
                  edits, result, errors, before >>
  /\ UNCHANGED << raised, logged, callVars >>

\* the loop is over: checkAndRunCronJobs returns
CronEnd ==
  /\ cronPc = "loop"
  /\ idx > Len(cronRows)
  /\ cronPc' = "idle"
  /\ failedBefore' =
       {calls[k].appId : k \in {j \in 1..Len(calls) : ~calls[j].ok}}
  /\ cronRows' = << >>
  /\ idx' = 0
  /\ cronNow' = NoInstant
  /\ attempts' = << >>
  /\ lastRuns' = << >>
  /\ failures' = << >>
  /\ calls' = << >>
  /\ UNCHANGED << crons, raised, logged, syncVars, callVars >>

\* a sheet in use by the scheduler
InitCron ==
  /\ headers \in HeaderSchemas
  /\ \E rs \in CronInitialRows : table = EncodeRows(headers, rs)
  /\ SyncIdle
  /\ CronIdle
  /\ CallIdle

NextCron ==
  \/ CronOpenFail
  \/ CronConfigMissing
  \/ CronStart
  \/ CronSkipRow
  \/ CronBadArgs
  \/ CronExecute
  \/ CronEnd
  \/ UserEdit

SpecCron == InitCron /\ [][NextCron]_vars

----------------------------------------------------------------------------
(* A sync pass and a scheduler pass on one sheet *)

\* updateLastRun up to its setValue: the data row and the column it is about
\* to write, << >> when it returns before ('No row found', 'LastRun column
\* not found')
LocateLastRun(hs, data, appId) ==
  LET found == {i \in 1..Len(data) : getAllRows(hs, data)[i].id = appId}
      lastRunColIndex == getColumnIndex(hs, SHEET_COLUMNS.LastRun)
  IN IF found = {} \/ lastRunColIndex = -1 THEN << >>
     ELSE << CHOOSE i \in found : \A j \in found : i <= j, lastRunColIndex >>

\* one turn of the loop that calls the client, up to the read of
\* updateLastRun: getAllRows and findIndex give the row to write
CronExecuteRead ==
  /\ cronPc = "loop"
  /\ idx <= Len(cronRows)
  /\ pending = << >>
  /\ ShouldRun(cronRows[idx], cronNow)
  /\ ParseArgs(cronRows[idx].args) # << >>
  /\ attempts' = Append(attempts, idx)
  /\ \E ok \in BOOLEAN :
       LET target == LocateLastRun(headers, table, cronRows[idx].id)
       IN /\ calls' = calls \o TryBlockCalls(idx, cronRows[idx],
                                              ParseArgs(cronRows[idx].args)[1], ok)
          /\ lastRuns' = IF ReachesUpdate(ok)
                           THEN Append(lastRuns,
                                       [row |-> idx, appId |-> cronRows[idx].id,
                                        runTime |-> cronNow.iso])
                           ELSE lastRuns
          /\ pending' = IF ReachesUpdate(ok) /\ target # << >>
                          THEN << [row |-> target[1], column |-> target[2],
                                   appId |-> cronRows[idx].id,
                                   runTime |-> cronNow.iso] >>
                          ELSE << >>
          /\ failures' = IF ok THEN failures
                         ELSE Append(failures, cronRows[idx].id)
          /\ idx' = IF pending' = << >> THEN AfterRow(idx, Len(cronRows), ok)
                    ELSE idx
  /\ UNCHANGED << cronPc, cronRows, cronNow, crons, failedBefore >>
  /\ UNCHANGED << syncVars, raised, logged, matchVars, codecVars, triggerVars,
                  clientVars >>

\* the setValue of updateLastRun, at the row its read gave; when it throws
\* the catch logs; the loop goes on
UpdateLastRunWrite ==
  /\ pending # << >>
  /\ \E ok \in BOOLEAN :
       table' = IF ok THEN setValue(table, pending[1].row, pending[1].column,
                                    pending[1].runTime)
                ELSE table
  /\ pending' = << >>
  /\ idx' = AfterRow(idx, Len(cronRows), TRUE)
  /\ seen' = IF pc = "clear" /\ table' # table THEN table' ELSE seen
  /\ UNCHANGED << cronPc, cronRows, cronNow, attempts, lastRuns, failures,
                  crons, failedBefore >>
  /\ UNCHANGED << headers, pc, apps, existingRows, mergedData, now, syncs,
                  edits, result, errors, before >>
  /\ UNCHANGED << entryVars, matchVars, codecVars, triggerVars, clientVars >>

\* the two triggers fire independently: the calls of one pass on the sheet
\* interleave with the calls of the other
NextBoth ==
  \/ SyncRead
  \/ SyncClear
  \/ SyncWrite
  \/ CronStart
  \/ CronSkipRow
  \/ CronExecuteRead
  \/ UpdateLastRunWrite
  \/ CronEnd

\* a sheet with the default header row, a disabled row and an enabled row
\* that is due
InitBoth ==
  /\ headers = DefaultHeaders
  /\ table = EncodeRows(headers, << RowB, RowA >>)
  /\ SyncIdle
  /\ CronIdle
  /\ CallIdle

SpecBoth == InitBoth /\ [][NextBoth]_vars

----------------------------------------------------------------------------
(* Calls of isCronMatch *)

\* isCronMatch(date, cronConfig) is called and returns
IsCronMatchCall ==
  /\ match = << >>
  /\ match' = << isCronMatch(instant, config) >>
  /\ UNCHANGED << instant, config, syncVars, entryVars, cronVars, codecVars,
                  triggerVars, updateVars, clientVars >>

\* a Date and a row to call isCronMatch with
InitMatch ==
  /\ instant \in Instants
  /\ config \in CronConfigs
  /\ match = << >>
  /\ headers = DefaultHeaders
  /\ table = << >>
  /\ SyncIdle
  /\ CronIdle
  /\ CodecIdle
  /\ TriggerIdle
  /\ UpdateIdle
  /\ ClientIdle

NextMatch == IsCronMatchCall

SpecMatch == InitMatch /\ [][NextMatch]_vars

\* a Date of every minute of an hour and a row with one field to match
InitField ==
  /\ instant \in FieldInstants
  /\ config \in FieldConfigs
  /\ match = << >>
  /\ headers = DefaultHeaders
  /\ table = << >>
  /\ SyncIdle
  /\ CronIdle
  /\ CodecIdle
  /\ TriggerIdle
  /\ UpdateIdle
  /\ ClientIdle

SpecField == InitField /\ [][NextMatch]_vars

----------------------------------------------------------------------------
(* Calls of the row codec *)

\* a header row with the first three columns only
ShortHeaders == << "Enabled", "ID", "Name" >>

\* every column of SHEET_COLUMNS from the last to the first, then a column
\* of the sheet's own
ReversedHeaders ==
  << "Last Run", "Last Sync", "Args", "Cron Day of Week", "Cron Month",
     "Cron Day of Month", "Cron Hours", "Cron Minutes", "API Secret",
     "Description", "Name", "ID", "Enabled", "Memo" >>

\* the header rows a row is laid out and decoded under
CodecSchemas == HeaderSchemas \cup {ShortHeaders, ReversedHeaders}

\* the rows that are laid out
CodecRows == {RowA, RowB, RowC, RowD}

\* the data rows getValues() is made to return: rows in the default layout,
\* cut after any of their cells
RawRows ==
  {SubSeq(EncodeRow(DefaultHeaders, r), 1, n) :
     r \in {RowA, RowD}, n \in 1..Len(DefaultHeaders)}

\* the row layout of syncApps puts a row into the empty sheet
EncodeCall ==
  /\ table = << >>
  /\ original = << >>
  /\ \E r \in CodecRows :
       /\ original' = << r >>
       /\ table' = << EncodeRow(headers, r) >>
  /\ UNCHANGED << headers, pc, apps, existingRows, mergedData, now, syncs,
                  edits, result, errors, before, seen, decoded, entryVars,
                  cronVars, matchVars, triggerVars, updateVars,
                  clientVars >>

\* getAllRows() is called on the sheet and returns
GetAllRowsCall ==
  /\ table # << >>
  /\ decoded = << >>
  /\ decoded' = << getAllRows(headers, table) >>
  /\ UNCHANGED << original, syncVars, entryVars, cronVars, matchVars,
                  triggerVars, updateVars, clientVars >>

\* a header row, and a sheet that is empty or holds one data row
InitCodec ==
  /\ headers \in CodecSchemas
  /\ table \in {<< >>} \cup {<< row >> : row \in RawRows}
  /\ SyncIdle
  /\ CronIdle
  /\ MatchIdle
  /\ CodecIdle
  /\ TriggerIdle
  /\ UpdateIdle
  /\ ClientIdle

NextCodec == EncodeCall \/ GetAllRowsCall

SpecCodec == InitCodec /\ [][NextCodec]_vars

----------------------------------------------------------------------------
(* syncApps called twice with one list *)

\* calls of syncApps in one behaviour
MaxRuns == 2

\* the data rows after syncApps(list): the rows read (none when the read
\* throws), the merge, the clear of the rows there are, the write of the
\* merged rows; the error of a clear or of a write is logged
syncApps(hs, data, list, t, readOk, clearOk, writeOk) ==
  LET rows == IF readOk THEN getAllRows(hs, data) ELSE << >>
      merged == Merge(rows, list, t)
      cleared == IF Len(data) > 0 /\ clearOk THEN clearContent(data, Len(data))
                 ELSE data
  IN IF Len(merged) > 0 /\ writeOk
       THEN setValues(cleared, EncodeRows(hs, merged))
       ELSE cleared

\* syncApps(apps) is called with the list of the behaviour and returns; from
\* the second call on, before is the sheet the call found
SyncAppsCall ==
  /\ syncs < MaxRuns
  /\ ~EmptyGuard(apps)
  /\ \E readOk, clearOk, writeOk \in BOOLEAN :
       /\ table' = syncApps(headers, table, apps, Iso(syncs + 1), readOk,
                            clearOk, writeOk)
       /\ errors' = errors \cup (IF readOk THEN {} ELSE {"read"})
                      \cup (IF clearOk \/ Len(table) = 0 THEN {} ELSE {"clear"})
                      \cup (IF writeOk THEN {} ELSE {"write"})
  /\ syncs' = syncs + 1
  /\ before' = IF syncs > 0 THEN table ELSE before
  /\ UNCHANGED << headers, pc, apps, existingRows, mergedData, now, edits,
                  result, seen >>
  /\ UNCHANGED << entryVars, cronVars, callVars >>

\* a sheet and a non-empty remote list
InitTwice ==
  /\ headers \in HeaderSchemas
  /\ \E rs \in InitialRows : table = EncodeRows(headers, rs)
  /\ apps \in {list \in AppLists : ~EmptyGuard(list)}
  /\ pc = "idle"
  /\ existingRows = << >>
  /\ mergedData = << >>
  /\ now = ""
  /\ syncs = 0
  /\ edits = 0
  /\ result = "none"
  /\ errors = {}
  /\ before = << >>
  /\ seen = << >>
  /\ raised = ""
  /\ logged = ""
  /\ calls = << >>
  /\ CronIdle
  /\ CallIdle

NextTwice == SyncAppsCall

SpecTwice == InitTwice /\ [][NextTwice]_vars

----------------------------------------------------------------------------
(* Trigger registration *)

SYNC_TRIGGER_FUNCTION == "syncDifyApps"
CRON_TRIGGER_FUNCTION == "checkAndRunCronJobs"

\* handler functions of triggers the two create functions do not make
OtherFunctions == {"executeScheduledWorkflows", "otherFunction"}

\* a time-based trigger of the project
HourlyTrigger(functionName) ==
  [handlerFunction |-> functionName, every |-> "everyHours(1)"]

MinutelyTrigger(functionName) ==
  [handlerFunction |-> functionName, every |-> "everyMinutes(1)"]

\* a delete that finds no trigger
deleteNoTriggers(list, functionName) == list

\* deleteExistingTriggers(functionName): the project triggers that are left
deleteExistingTriggers(list, functionName) ==
  SelectSeq(list, LAMBDA t : t.handlerFunction # functionName)

\* the triggers of a handler function among the project triggers
TriggersOf(list, functionName) ==
  SelectSeq(list, LAMBDA t : t.handlerFunction = functionName)

\* the project triggers before the first call: triggers of other functions
\* and at most one of each of the two handlers
MaxTriggers == 3

InitialTriggerKinds ==
  {HourlyTrigger(SYNC_TRIGGER_FUNCTION), MinutelyTrigger(CRON_TRIGGER_FUNCTION)}
    \cup {MinutelyTrigger(f) : f \in OtherFunctions}

InitialTriggers ==
  {list \in UNION {[1..n -> InitialTriggerKinds] : n \in 0..MaxTriggers} :
     /\ Len(TriggersOf(list, SYNC_TRIGGER_FUNCTION)) <= 1
     /\ Len(TriggersOf(list, CRON_TRIGGER_FUNCTION)) <= 1}

createSyncTrigger ==
  /\ triggers' = Append(deleteExistingTriggers(triggers, SYNC_TRIGGER_FUNCTION),
                        HourlyTrigger(SYNC_TRIGGER_FUNCTION))
  /\ created' = created \cup {"createSyncTrigger"}
  /\ UNCHANGED << syncVars, entryVars, cronVars, matchVars, codecVars,
                  updateVars, clientVars >>

createCronTrigger ==
  /\ triggers' = Append(deleteExistingTriggers(triggers, CRON_TRIGGER_FUNCTION),
                        MinutelyTrigger(CRON_TRIGGER_FUNCTION))
  /\ created' = created \cup {"createCronTrigger"}
  /\ UNCHANGED << syncVars, entryVars, cronVars, matchVars, codecVars,
                  updateVars, clientVars >>

\* a project with the triggers it has before the first call
InitTrigger ==
  /\ triggers \in InitialTriggers
  /\ created = {}
  /\ headers = DefaultHeaders
  /\ table = << >>
  /\ SyncIdle
  /\ CronIdle
  /\ MatchIdle
  /\ CodecIdle
  /\ UpdateIdle
  /\ ClientIdle

NextTrigger == createSyncTrigger \/ createCronTrigger

SpecTrigger == InitTrigger /\ [][NextTrigger]_vars

----------------------------------------------------------------------------
(* The Dify client: DifyClient *)

\* calls made on one client
MaxCalls == 3

LOGIN_PATH == "/console/api/login"

APPS_PATH == "/console/api/apps"

WorkflowPath(appId) == "/console/api/apps/" \o appId \o "/workflow"

\* the endpoints of executeWorkflowWithApiKey, in the order it tries them
ApiKeyEndpoints(appId) ==
  << "/v1/workflows/run", "/api/workflow-run", "/workflows/" \o appId \o "/run" >>

\* the object a response text parses to.  token, access_token: << s >> for a
\* property holding the string s, << >> for none; data: "absent", "array" or
\* "object"; nested: the access_token property of data, as token
Body(tk, at, data, nested) ==
  [token |-> tk, access_token |-> at, data |-> data, nested |-> nested]

EmptyBody == Body(<< >>, << >>, "absent", << >>)

\* what UrlFetchApp.fetch does with a request.  kind: "throws" (no response),
\* "text" (a response whose text is not JSON), "null" (the text 'null'),
\* "json" (the text of an object); code: getResponseCode()
Reply(kind, code, body) == [kind |-> kind, code |-> code, body |-> body]

Json(body) == Reply("json", 200, body)

\* replies #fetch turns into an error
FailingReplies ==
  {Reply("throws", 0, EmptyBody), Reply("text", 401, EmptyBody),
   Reply("text", 200, EmptyBody), Reply("json", 300, EmptyBody)}

\* replies to a login request
LoginReplies ==
  FailingReplies
    \cup {Reply("null", 200, EmptyBody), Json(EmptyBody),
          Json(Body(<< "t1" >>, << >>, "absent", << >>)),
          Json(Body(<< "" >>, << "t2" >>, "absent", << >>)),
          Json(Body(<< >>, << "t2" >>, "absent", << >>)),
          Json(Body(<< >>, << >>, "object", << "t1" >>)),
          Json(Body(<< >>, << >>, "object", << >>)),
          Json(Body(<< >>, << >>, "array", << >>))}

\* replies to a request for the app list
AppsReplies ==
  FailingReplies
    \cup {Reply("null", 200, EmptyBody), Json(EmptyBody),
          Json(Body(<< >>, << >>, "object", << >>)),
          Json(Body(<< >>, << >>, "array", << >>))}

\* replies to a request that runs a workflow
RunReplies == FailingReplies \cup {Reply("null", 200, EmptyBody), Json(EmptyBody)}

ClientAppIds == {"a", "b"}

ApiKey == "key"

\* #fetch: the class of the error it throws ("" when it returns) and the
\* value it returns; its catch wraps every error that is not a DifyAPIError
fetch(reply) ==
  LET thrown == IF reply.kind = "throws" THEN "Error"
                ELSE IF reply.code < 200 \/ reply.code >= 300 THEN "DifyAPIError"
                ELSE IF reply.kind = "text" THEN "SyntaxError"
                ELSE ""
  IN [error |-> IF thrown \in {"", "DifyAPIError"} THEN thrown ELSE "DifyAPIError",
      body |-> reply.body]

\* one call of UrlFetchApp.fetch: the path, the bearer of its Authorization
\* header ("" without the header) and what came back
Request(path, bearer, reply) == [path |-> path, bearer |-> bearer, reply |-> reply]

\* how a call of a method that needs the token ends: the requests it sent,
\* this.#token after it, the class of the error it threw, the value returned
Ended(reqs, tok, error, value) ==
  [requests |-> reqs, token |-> tok, raised |-> error, value |-> value]

\* #login: the token it reads from the response, "" for undefined
TokenOf(body) ==
  IF body.token # << >> THEN body.token[1]
  ELSE IF body.access_token # << >> THEN body.access_token[1]
  ELSE IF body.data = "object" /\ body.nested # << >> THEN body.nested[1]
  ELSE ""

login(tok, reply) ==
  LET response == fetch(reply)
      reqs == << Request(LOGIN_PATH, "", reply) >>
  IN IF response.error # "" THEN Ended(reqs, tok, response.error, "")
     ELSE IF reply.kind = "null" THEN Ended(reqs, tok, "TypeError", "")
     ELSE IF TokenOf(response.body) = "" THEN Ended(reqs, tok, "DifyAPIError", "")
     ELSE Ended(reqs, TokenOf(response.body), "", TokenOf(response.body))

getTokenAlwaysLogin(tok, reply) == login(tok, reply)

getToken(tok, reply) ==
  IF tok = "" THEN login(tok, reply) ELSE Ended(<< >>, tok, "", tok)

getApps(tok, loginReply, reply) ==
  LET t == getToken(tok, loginReply)
      response == fetch(reply)
      reqs == Append(t.requests, Request(APPS_PATH, t.value, reply))
  IN IF t.raised # "" THEN t
     ELSE IF response.error # "" THEN Ended(reqs, t.token, response.error, "")
     ELSE IF reply.kind = "null" THEN Ended(reqs, t.token, "TypeError", "")
     ELSE IF response.body.data # "array"
       THEN Ended(reqs, t.token, "DifyAPIError", "")
     ELSE Ended(reqs, t.token, "", "apps")

executeWorkflow(tok, appId, loginReply, reply) ==
  LET t == getToken(tok, loginReply)
      response == fetch(reply)
      reqs == Append(t.requests, Request(WorkflowPath(appId), t.value, reply))
  IN IF t.raised # "" THEN t
     ELSE IF response.error # "" THEN Ended(reqs, t.token, response.error, "")
     ELSE Ended(reqs, t.token, "", "response")

executeWorkflowWithApiKeyFirstEndpoint(tok, appId, apiKey, replies) ==
  LET first == fetch(replies[1])
  IN Ended(<< Request(ApiKeyEndpoints(appId)[1], apiKey, replies[1]) >>, tok,
           first.error, IF first.error = "" THEN "response" ELSE "")

\* the three nested try blocks; the outer catch wraps an error that is not a
\* DifyAPIError
executeWorkflowWithApiKey(tok, appId, apiKey, replies) ==
  LET req(k) == Request(ApiKeyEndpoints(appId)[k], apiKey, replies[k])
      first == fetch(replies[1])
      second == fetch(replies[2])
      third == fetch(replies[3])
  IN IF first.error = "" THEN Ended(<< req(1) >>, tok, "", "response")
     ELSE IF second.error = ""
       THEN Ended(<< req(1), req(2) >>, tok, "", "response")
     ELSE IF third.error = ""
       THEN Ended(<< req(1), req(2), req(3) >>, tok, "", "response")
     ELSE Ended(<< req(1), req(2), req(3) >>, tok,
                IF third.error = "DifyAPIError" THEN third.error
                ELSE "DifyAPIError", "")

\* a method of the client is called for an app ("" for none) and ends as r
\* says
ClientCall(method, appId, r) ==
  /\ sent < MaxCalls
  /\ sent' = sent + 1
  /\ token' = r.token
  /\ requests' = r.requests
  /\ outcome' = [method |-> method, appId |-> appId, raised |-> r.raised,
                 value |-> r.value]
  /\ UNCHANGED << syncVars, entryVars, cronVars, matchVars, codecVars,
                  triggerVars, updateVars >>

GetTokenCall ==
  \E reply \in LoginReplies : ClientCall("getToken", "", getToken(token, reply))

GetAppsCall ==
  \E loginReply \in LoginReplies, reply \in AppsReplies :
    ClientCall("getApps", "", getApps(token, loginReply, reply))

ExecuteWorkflowCall ==
  \E appId \in ClientAppIds, loginReply \in LoginReplies, reply \in RunReplies :
    ClientCall("executeWorkflow", appId,
               executeWorkflow(token, appId, loginReply, reply))

ExecuteWorkflowWithApiKeyCall ==
  \E appId \in ClientAppIds, replies \in [1..3 -> RunReplies] :
    ClientCall("executeWorkflowWithApiKey", appId,
               executeWorkflowWithApiKey(token, appId, ApiKey, replies))

\* a client that has just been constructed
InitClient ==
  /\ headers = DefaultHeaders
  /\ table = << >>
  /\ SyncIdle
  /\ CronIdle
  /\ CallIdle

NextClient ==
  \/ GetTokenCall
  \/ GetAppsCall
  \/ ExecuteWorkflowCall
  \/ ExecuteWorkflowWithApiKeyCall

SpecClient == InitClient /\ [][NextClient]_vars

----------------------------------------------------------------------------
(* Statements *)

\* the ids of a remote list
IdsOf(list) == {list[k].id : k \in 1..Len(list)}

\* the merge has run and its rows are not yet all written
Merged == pc \in {"clear", "write"}

\* this step is the write step, the last of a pass that got to the merge
PassEnds == pc = "write" /\ pc' = "idle"

\* entry k is the first entry of the list with its id
FirstWithId(list, k) == \A h \in 1..(k - 1) : list[h].id # list[k].id

\* the last of the rows with this id
LastWithId(rows, id) ==
  rows[CHOOSE i \in 1..Len(rows) :
         rows[i].id = id /\ \A j \in (i + 1)..Len(rows) : rows[j].id # id]

\* row m keeps what the user and the scheduler put into row e and takes the
\* rest from the remote app
KeepsRow(m, e, app, t) ==
  /\ m.enabled = e.enabled
  /\ m.cronMinutes = e.cronMinutes
  /\ m.cronHours = e.cronHours
  /\ m.cronDayOfMonth = e.cronDayOfMonth
  /\ m.cronMonth = e.cronMonth
  /\ m.cronDayOfWeek = e.cronDayOfWeek
  /\ m.args = e.args
  /\ m.lastRun = e.lastRun
  /\ m.name = app.name
  /\ m.description = (IF app.description = NoDescription THEN "" ELSE app.description)
  /\ m.lastSync = t

\* rows r and u carry the same user configuration
SameConfig(r, u) ==
  /\ r.enabled = u.enabled
  /\ r.cronMinutes = u.cronMinutes
  /\ r.cronHours = u.cronHours
  /\ r.cronDayOfMonth = u.cronDayOfMonth
  /\ r.cronMonth = u.cronMonth
  /\ r.cronDayOfWeek = u.cronDayOfWeek
  /\ r.args = u.args

\* C1: a call of syncApps with an empty list is over in one step and leaves
\* every data row of the sheet as it was
C1_EmptyListLeavesTable ==
  [][(syncs' = syncs + 1 /\ result' \in {"skipped", "running"} /\ Len(apps') = 0)
       => (table' = table /\ pc' = "idle")]_vars

\* C1 happens: syncApps was called with an empty list on a sheet that has rows
C1_Witness == result = "skipped" /\ pc = "idle" /\ Len(table) > 0

C3_UserConfigSurvives ==
  [][(PassEnds /\ errors' = {})
       => \A i \in 1..Len(seen) :
            DecodeRow(headers, seen[i]).id \in IdsOf(apps)
              => \E j \in 1..Len(table') :
                   /\ DecodeRow(headers, table'[j]).id = DecodeRow(headers, seen[i]).id
                   /\ SameConfig(DecodeRow(headers, table'[j]), DecodeRow(headers, seen[i]))]_vars

\* C4: a pass in which a call failed does not end with an empty sheet when the
\* sheet had rows as the pass began
C4_NotWipedOnError ==
  [][(pc' = "idle" /\ (pc = "write" \/ syncs' = syncs + 1) /\ errors' # {})
       => (Len(IF pc = "write" THEN before ELSE table) > 0 => Len(table') > 0)]_vars

\* C5: no two rows of the sheet have the same id
C5_UniqueIds ==
  \A i, j \in 1..Len(table) :
    i # j => DecodeRow(headers, table[i]).id # DecodeRow(headers, table[j]).id

\* C6: when a pass ends without a storage error, a row that was in the sheet
\* with a secret and whose id is in the remote list still has that secret, and
\* no row has a secret the sheet did not hold for it
C6_SecretUntouched ==
  [][(PassEnds /\ errors' = {})
       => /\ \A i \in 1..Len(before) :
               (/\ DecodeRow(headers, before[i]).id \in IdsOf(apps)
                /\ DecodeRow(headers, before[i]).apiSecret # "")
                 => \E j \in 1..Len(table') :
                      /\ DecodeRow(headers, table'[j]).id = DecodeRow(headers, before[i]).id
                      /\ DecodeRow(headers, table'[j]).apiSecret = DecodeRow(headers, before[i]).apiSecret
          /\ \A j \in 1..Len(table') :
               DecodeRow(headers, table'[j]).apiSecret # ""
                 => \E i \in 1..Len(before) :
                      /\ DecodeRow(headers, before[i]).id = DecodeRow(headers, table'[j]).id
                      /\ DecodeRow(headers, before[i]).apiSecret = DecodeRow(headers, table'[j]).apiSecret]_vars

\* C7: the merged row of every remote entry whose id some row read has, has an
\* empty apiSecret
C7_SecretCleared ==
  Merged =>
    \A k \in 1..Len(apps) :
      (\E j \in 1..Len(existingRows) : existingRows[j].id = apps[k].id)
        => mergedData[k].apiSecret = ""

\* C7 happens: a row with a secret is merged with a remote app of the same
\* name
C7_Witness ==
  /\ pc = "write"
  /\ \E k \in 1..Len(apps), j \in 1..Len(existingRows) :
       /\ existingRows[j].id = apps[k].id
       /\ existingRows[j].name = apps[k].name
       /\ existingRows[j].apiSecret # ""
       /\ mergedData[k].apiSecret = ""

\* C8: the merged row of every remote entry whose id no row read has, is the
\* default row: disabled, no schedule, args, secret or lastRun, id, name and
\* description of the entry, lastSync = now
C8_NewRowDefaults ==
  Merged =>
    \A k \in 1..Len(apps) :
      (\A j \in 1..Len(existingRows) : existingRows[j].id # apps[k].id)
        => mergedData[k] =
             [enabled |-> FALSE, id |-> apps[k].id, name |-> apps[k].name,
              description |-> (IF apps[k].description = NoDescription
                                 THEN "" ELSE apps[k].description),
              apiSecret |-> "", cronMinutes |-> "", cronHours |-> "",
              cronDayOfMonth |-> "", cronMonth |-> "", cronDayOfWeek |-> "",
              args |-> "", lastSync |-> Iso(syncs), lastRun |-> ""]

\* C8 happens: a sheet with rows is merged with a remote app it has no row for
C8_Witness ==
  /\ pc = "write"
  /\ Len(existingRows) > 0
  /\ \E k \in 1..Len(apps) :
       /\ \A j \in 1..Len(existingRows) : existingRows[j].id # apps[k].id
       /\ mergedData[k].id = apps[k].id
       /\ ~mergedData[k].enabled

C10_OneRowPerEntry ==
  [][(PassEnds /\ errors' \cap {"clear", "write"} = {})
       => /\ Len(table') = Len(apps)
          /\ \A k \in 1..Len(apps) :
               DecodeRow(headers, table'[k]).id = apps[k].id]_vars

\* C10 happens: a pass without error has replaced the rows b, a by a, b
C10_Witness ==
  /\ pc = "idle"
  /\ result = "completed"
  /\ errors = {}
  /\ Len(table) = 2
  /\ DecodeRow(headers, table[1]).id = "a"
  /\ DecodeRow(headers, table[2]).id = "b"
  /\ DecodeRow(headers, table[1]).lastSync = Iso(syncs)
  /\ DecodeRow(headers, table[2]).lastSync = Iso(syncs)

\* the step of a sync pass in which client.getApps() throws
FetchFails == syncs' = syncs + 1 /\ calls' = << getAppsCall(FALSE) >>

\* C11: when getApps throws in syncDifyApps the pass is over in that step:
\* syncApps is not entered (no list taken, no rows read, no merge, no sheet
\* call pending), the sheet is as before, and the error getApps threw is the
\* one logged and the one thrown to the caller
C11_FetchFailureAborts ==
  [][FetchFails =>
       /\ pc' = "idle"
       /\ UNCHANGED << headers, table, apps, existingRows, mergedData, now >>
       /\ logged' \in FetchErrors
       /\ raised' = logged']_vars

C11_Witness ==
  /\ result = "fetch_error"
  /\ raised = "No token in response"
  /\ logged = raised
  /\ Len(table) > 0
  /\ pc = "idle"

\* this step is one turn of the scheduler loop, for the row at idx
LoopTurn == cronPc = "loop" /\ idx <= Len(cronRows) /\ idx' # idx

\* what a turn of the loop does for its row: nothing of this changes when
\* the row is left alone
TurnActs ==
  \/ attempts' # attempts
  \/ calls' # calls
  \/ lastRuns' # lastRuns
  \/ table' # table

\* C12: in a scheduler pass the turn of a row that is not enabled, or whose
\* schedule does not match now, enters no try block, calls no client method,
\* calls no updateLastRun and leaves the sheet as it is: only the turn of an
\* enabled row that is due acts
C12_OnlyEnabledAndDueRun ==
  [][LoopTurn /\ TurnActs =>
       cronRows[idx].enabled /\ isCronMatch(cronNow, cronRows[idx])]_vars

\* a pass on Sunday 00:00 has gone by a row that is due but disabled and by
\* two enabled rows that are not due, and has run the one row that is due
C12_Witness ==
  /\ cronPc = "loop"
  /\ cronNow = Sunday0000
  /\ idx > Len(cronRows)
  /\ Len(cronRows) = 4
  /\ ~cronRows[2].enabled /\ isCronMatch(cronNow, cronRows[2])
  /\ cronRows[1].enabled /\ ~isCronMatch(cronNow, cronRows[1])
  /\ cronRows[3].enabled /\ ~isCronMatch(cronNow, cronRows[3])
  /\ attempts = << 4 >>
  /\ Len(calls) = 1 /\ calls[1].row = 4

\* the client call this turn of the loop makes, if it makes one
CallsNow == Len(calls') = Len(calls) + 1

\* C13: a turn of the loop calls updateLastRun, or changes the sheet, only
\* when the client call it made for its row has returned; the call is then
\* updateLastRun(row.id, runTime) for that row.  A turn whose client call
\* threw calls no updateLastRun and leaves the sheet as it is
C13_LastRunOnlyOnSuccess ==
  [][LoopTurn =>
       /\ (lastRuns' # lastRuns \/ table' # table) =>
            /\ CallsNow
            /\ calls'[Len(calls')].ok
            /\ calls'[Len(calls')].row = idx
            /\ lastRuns' = Append(lastRuns, [row |-> idx,
                                             appId |-> cronRows[idx].id,
                                             runTime |-> cronNow.iso])
       /\ (CallsNow /\ ~calls'[Len(calls')].ok) =>
            (lastRuns' = lastRuns /\ table' = table)]_vars

\* a pass in which the call for one row threw and the call for a later row
\* returned: updateLastRun was called for the later row only, and the sheet
\* holds the pass's instant in that row and not in the first
C13_Witness ==
  /\ cronPc = "loop"
  /\ Len(calls) = 2
  /\ ~calls[1].ok /\ calls[2].ok
  /\ calls[1].appId # calls[2].appId
  /\ Len(lastRuns) = 1
  /\ lastRuns[1].row = calls[2].row
  /\ getAllRows(headers, table)[calls[2].row].lastRun = cronNow.iso
  /\ getAllRows(headers, table)[calls[1].row].lastRun # cronNow.iso

\* the positions held by a sequence of positions
Positions(list) == {list[j] : j \in 1..Len(list)}

\* this step ends a scheduler pass that got to its loop
CronPassEnds == cronPc = "loop" /\ cronPc' = "idle"

\* C14: a turn of the loop whose client call throws logs the failure for its
\* row and goes on to the next row, nothing being thrown; and when the loop
\* is over, every row of the pass that is enabled and due has had its try
\* block entered, and its client call made if its args parse, whatever
\* failed before it; the pass ends without an error thrown to the caller
C14_FailureIsolated ==
  [][/\ (LoopTurn /\ CallsNow /\ ~calls'[Len(calls')].ok) =>
          /\ failures' = Append(failures, cronRows[idx].id)
          /\ idx' = idx + 1
          /\ cronPc' = "loop"
          /\ raised' = ""
     /\ CronPassEnds =>
          /\ raised' = ""
          /\ \A k \in 1..Len(cronRows) :
               (cronRows[k].enabled /\ isCronMatch(cronNow, cronRows[k])) =>
                 /\ k \in Positions(attempts)
                 /\ ParseArgs(cronRows[k].args) # << >> =>
                      \E j \in 1..Len(calls) : calls[j].row = k]_vars

\* the loop is over; the call for row 3 threw and was logged, and the call
\* for row 4 was made after it
C14_Witness ==
  /\ cronPc = "loop"
  /\ Len(cronRows) = 4
  /\ idx > Len(cronRows)
  /\ Len(calls) = 2
  /\ calls[1].row = 3 /\ ~calls[1].ok
  /\ calls[2].row = 4
  /\ \E j \in 1..Len(failures) : failures[j] = cronRows[3].id
  /\ raised = ""

\* the row of this turn is enabled and due
TurnRuns == cronRows[idx].enabled /\ isCronMatch(cronNow, cronRows[idx])

\* C15: the turn of an enabled, due row whose args are neither empty nor
\* text that JSON.parse accepts makes no client call, calls no
\* updateLastRun, leaves the sheet as it is, logs the failure for the row
\* and goes on to the next row; the turn of such a row with empty args
\* makes its client call, with the empty object as payload
C15_BadArgsSkipped ==
  [][(LoopTurn /\ TurnRuns) =>
       /\ cronRows[idx].args \notin (ValidArgs \cup {""}) =>
            /\ calls' = calls
            /\ lastRuns' = lastRuns
            /\ table' = table
            /\ failures' = Append(failures, cronRows[idx].id)
            /\ idx' = idx + 1
            /\ cronPc' = "loop"
       /\ cronRows[idx].args = "" =>
            /\ CallsNow
            /\ calls'[Len(calls')].row = idx
            /\ calls'[Len(calls')].args = "{}"]_vars

\* the loop is over: row 1, whose args are not JSON, was logged and not
\* called; row 4, whose args are empty, was called with the empty object
C15_Witness ==
  /\ cronPc = "loop"
  /\ Len(cronRows) = 4
  /\ idx > Len(cronRows)
  /\ cronRows[1].args = "oops"
  /\ 1 \in Positions(attempts)
  /\ failures[1] = cronRows[1].id
  /\ \A j \in 1..Len(calls) : calls[j].row # 1
  /\ \A j \in 1..Len(lastRuns) : lastRuns[j].row # 1
  /\ cronRows[4].args = ""
  /\ \E j \in 1..Len(calls) : calls[j].row = 4 /\ calls[j].args = "{}"

\* how often a position occurs in a sequence of positions
Occurrences(list, k) == Cardinality({j \in 1..Len(list) : list[j] = k})

\* C16: when a pass ends, no row of the pass has had its try block entered
\* or its client call made more than once; a turn whose client call threw
\* has left the sheet, and so the row's lastRun, as it was; and a row whose
\* call threw in the pass before has had its try block entered in this pass
\* exactly if this pass read it as enabled and its schedule matches this
\* pass's now
C16_NoRetry ==
  [][/\ (LoopTurn /\ Len(calls') > Len(calls) /\ ~calls'[Len(calls')].ok) =>
          table' = table
     /\ CronPassEnds =>
          \A k \in 1..Len(cronRows) :
            /\ Occurrences(attempts, k) <= 1
            /\ Cardinality({j \in 1..Len(calls) : calls[j].row = k}) <= 1
            /\ cronRows[k].id \in failedBefore =>
                 (k \in Positions(attempts) <=>
                    (cronRows[k].enabled /\ isCronMatch(cronNow, cronRows[k])))]_vars

\* the calls for a and c threw in the first pass; the second pass, on Sunday
\* 00:00, has gone by a, enabled and not due, and has run c again
C16_Witness ==
  /\ crons = 2
  /\ cronPc = "loop"
  /\ Len(cronRows) = 4
  /\ idx > Len(cronRows)
  /\ failedBefore = {"a", "c"}
  /\ cronRows[3].id = "a" /\ cronRows[3].enabled
  /\ cronRows[4].id = "c"
  /\ attempts = << 4 >>
  /\ Len(calls) = 1 /\ calls[1].row = 4

\* the turn makes the one client call that the row's apiSecret selects:
\* executeWorkflowWithApiKey(row.id, row.apiSecret, payload, 'blocking',
\* 'cron-job-' + row.id) when apiSecret is not empty, executeWorkflow(row.id,
\* payload) when it is empty
CallsOnePath ==
  /\ CallsNow
  /\ SubSeq(calls', 1, Len(calls)) = calls
  /\ LET row == cronRows[idx]
         call == calls'[Len(calls')]
     IN /\ call.row = idx
        /\ call.appId = row.id
        /\ call.args = (IF row.args = "" THEN "{}" ELSE row.args)
        /\ IF row.apiSecret # ""
             THEN /\ call.fn = "executeWorkflowWithApiKey"
                  /\ call.apiKey = row.apiSecret
                  /\ call.responseMode = "blocking"
                  /\ call.user = "cron-job-" \o row.id
             ELSE /\ call.fn = "executeWorkflow"
                  /\ call.apiKey = ""

\* C17 as stated: the turn of every enabled, due row makes exactly one client
\* call, through the path its apiSecret selects
C17_EveryDueRowCallsOnePath ==
  [][(LoopTurn /\ TurnRuns) => CallsOnePath]_vars

\* C17: the turn of an enabled, due row whose args are empty or text that
\* JSON.parse accepts makes exactly one client call, through the path its
\* apiSecret selects and with the parsed args as payload
C17_ParsedRowCallsOnePath ==
  [][(LoopTurn /\ TurnRuns /\ cronRows[idx].args \in (ValidArgs \cup {""})) =>
       CallsOnePath]_vars

\* a pass has called the row with a secret through executeWorkflowWithApiKey
\* and the row without one through executeWorkflow
C17_Witness ==
  /\ cronPc = "loop"
  /\ Len(calls) = 2
  /\ cronRows[calls[1].row].apiSecret = "k"
  /\ calls[1].fn = "executeWorkflowWithApiKey"
  /\ calls[1].apiKey = "k"
  /\ calls[1].user = "cron-job-a"
  /\ cronRows[calls[2].row].apiSecret = ""
  /\ calls[2].fn = "executeWorkflow"

\* this step is a pass of syncDifyApps or checkAndRunCronJobs that fails to
\* open the sheet or finds a configuration property unset
PassFails ==
  \/ SyncConfigMissing
  \/ SyncOpenFail
  \/ CronConfigMissing
  \/ CronOpenFail

\* C18: a pass of either entry point that cannot open the sheet, or finds
\* the configuration incomplete, logs that error and throws it to its
\* caller, having made no call of the client: no workflow run, no request
\* sent
C18_PassFailureSurfaced ==
  [][PassFails =>
       /\ logged' \in {OpenError, ConfigError}
       /\ raised' = logged'
       /\ calls' = << >>]_vars

\* what a schedule text stands for: the values of a component it is due at
Denotes(text) ==
  CASE text = "" -> 0..59
    [] text = "*" -> 0..59
    [] text = "30" -> {30}
    [] text = "35" -> {35}
    [] text = "1" -> {1}
    [] text = "2" -> {2}
    [] text = "1-5" -> {1, 2, 3, 4, 5}
    [] text = "*/5" -> {0, 5, 10, 15, 20, 25, 30, 35, 40, 45, 50, 55}

\* the component of an instant that field i is for
Component(date, i) ==
  CASE i = 1 -> date.minute
    [] i = 2 -> date.hour
    [] i = 3 -> date.day
    [] i = 4 -> date.month
    [] i = 5 -> date.weekday

\* field i of the schedule stands for a set that holds its component
FieldDue(date, cronConfig, i) ==
  Component(date, i) \in Denotes(cronParts(cronConfig)[i])

\* C19: isCronMatch answers true exactly when each of the five fields stands
\* for a set that holds its component of the instant -- the minute, the
\* hour, the day of the month, the month counted from 1 and the day of the
\* week counted from Sunday = 0; on Monday 2023-01-23 14:35 it answers true
\* for (35,*,*,*,1) and false for (35,*,*,*,2)
C19_AllFiveFieldsMatch ==
  match # << >> =>
    /\ match[1] <=> \A i \in 1..5 : FieldDue(instant, config, i)
    /\ (instant = Monday1435 /\ config = CronConfig(<< "35", "*", "*", "*", "1" >>))
         => match[1]
    /\ (instant = Monday1435 /\ config = CronConfig(<< "35", "*", "*", "*", "2" >>))
         => ~match[1]

\* the call for Monday 14:35 and (35,*,*,*,1) has answered true
C19_Witness ==
  /\ instant = Monday1435
  /\ config = CronConfig(<< "35", "*", "*", "*", "1" >>)
  /\ match = << TRUE >>

\* the fields of a schedule that are empty or '*'
Wildcards(cronConfig) == {i \in 1..5 : cronParts(cronConfig)[i] \in {"", "*"}}

\* C20: isCronMatch answers true for a row whose five fields are each empty
\* or '*', whatever the instant; and a field that is empty or '*' has no
\* say: the answer is that of the other fields, and is the same with '*' in
\* place of the empty text
C20_WildcardAlwaysDue ==
  match # << >> =>
    /\ Wildcards(config) = 1..5 => match[1]
    /\ match[1] <=> \A i \in (1..5) \ Wildcards(config) : FieldDue(instant, config, i)
    /\ match[1] <=>
         isCronMatch(instant,
                     CronConfig([i \in 1..5 |->
                                   IF cronParts(config)[i] = "" THEN "*"
                                   ELSE cronParts(config)[i]]))

\* the call for Saturday 23:05 and a row with five empty fields has answered
\* true
C20_Witness ==
  /\ instant = Saturday2305
  /\ config = CronConfig(<< "", "", "", "", "" >>)
  /\ match = << TRUE >>

----------------------------------------------------------------------------
(* Statements about one schedule field *)

\* isCronMatch has returned for the text and the minute
FieldCall(text, n) ==
  /\ match # << >>
  /\ config.cronMinutes = text
  /\ instant.minute = n

\* the integers a list of single integers names
Listed(text) ==
  CASE text = "5" -> {5}
    [] text = "6" -> {6}
    [] text = "35" -> {35}
    [] text = "5,10,15" -> {5, 10, 15}
    [] text = "10,35,55" -> {10, 35, 55}

\* C21: a field that is a comma-separated list of single integers (a single
\* integer being the list of one) matches a value exactly when the value is
\* one of the integers listed
C21_ListMatchesListed ==
  (match # << >> /\ config.cronMinutes \in ListTexts)
    => match[1] = (instant.minute \in Listed(config.cronMinutes))

\* the list '5,10,15' has matched its middle integer
C21_Witness == FieldCall("5,10,15", 10) /\ match = << TRUE >>

\* the two ends a range term names
RangeEnds(text) ==
  CASE text = "1-5" -> << 1, 5 >>
    [] text = "30-40" -> << 30, 40 >>
    [] text = "10-30" -> << 10, 30 >>
    [] text = "5-1" -> << 5, 1 >>
    [] text = "40-30" -> << 40, 30 >>

\* C22: a range term 'a-b' matches a value exactly when a <= value <= b, both
\* ends included, so that a range with a > b matches no value
C22_RangeInclusive ==
  (match # << >> /\ config.cronMinutes \in RangeTexts)
    => match[1] = (/\ RangeEnds(config.cronMinutes)[1] <= instant.minute
                   /\ instant.minute <= RangeEnds(config.cronMinutes)[2])

\* the range '30-40' has matched its upper end
C22_Witness == FieldCall("30-40", 40) /\ match = << TRUE >>

\* the step a stepped wildcard names, << >> when it names no number
StepNamed(text) ==
  CASE text = "*/5" -> << 5 >>
    [] text = "*/10" -> << 10 >>
    [] text = "*/7" -> << 7 >>
    [] text = "*/1" -> << 1 >>
    [] text = "*/0" -> << 0 >>
    [] text = "*/-5" -> << -5 >>
    [] text = "*/x" -> << >>
    [] text = "*/" -> << >>

\* C23: a stepped wildcard '*/n' with n a positive integer matches a value
\* exactly when the value is a multiple of n; with a step that is zero,
\* negative or not a number it matches no value
C23_SteppedWildcard ==
  (match # << >> /\ config.cronMinutes \in StepTexts)
    => LET step == StepNamed(config.cronMinutes)
       IN IF step # << >> /\ step[1] > 0
            THEN match[1] = (instant.minute % step[1] = 0)
            ELSE match[1] = FALSE

\* '*/7' has matched 35
C23_Witness == FieldCall("*/7", 35) /\ match = << TRUE >>

\* the start, the end and the step a stepped range names
SteppedRange(text) ==
  CASE text = "10-40/10" -> [start |-> 10, end |-> 40, step |-> 10]
    [] text = "1-10/3" -> [start |-> 1, end |-> 10, step |-> 3]
    [] text = "40-10/10" -> [start |-> 40, end |-> 10, step |-> 10]
    [] text = "0-59/15" -> [start |-> 0, end |-> 59, step |-> 15]

\* the terms with a step whose left part is neither '*' nor a range
BareStepTexts == {"5/2", "35/5", "x/5"}

\* C24: a stepped range 'a-b/n' with n a positive integer matches a value
\* exactly when a <= value <= b and value - a is a multiple of n; a term 'x/n'
\* whose left part is neither '*' nor a range matches no value
C24_SteppedRange ==
  (match # << >> /\ config.cronMinutes \in SteppedRangeTexts)
    => IF config.cronMinutes \in BareStepTexts
         THEN match[1] = FALSE
         ELSE LET r == SteppedRange(config.cronMinutes)
              IN match[1] = (/\ r.start <= instant.minute
                             /\ instant.minute <= r.end
                             /\ (instant.minute - r.start) % r.step = 0)

\* '1-10/3' has matched 7
C24_Witness == FieldCall("1-10/3", 7) /\ match = << TRUE >>

\* C26: a term that is not a well-formed integer, range or stepped range (a
\* non-numeric value, a range with a missing or non-numeric bound, a value
\* with trailing garbage) matches no value
C26_MalformedFailsClosed ==
  (match # << >> /\ config.cronMinutes \in MalformedTexts)
    => match = << FALSE >>

----------------------------------------------------------------------------
(* Statements about the row codec *)

\* the column of every field of an AppRow
FieldColumns ==
  [enabled |-> SHEET_COLUMNS.Enabled, id |-> SHEET_COLUMNS.ID,
   name |-> SHEET_COLUMNS.Name, description |-> SHEET_COLUMNS.Description,
   apiSecret |-> SHEET_COLUMNS.APISecret,
   cronMinutes |-> SHEET_COLUMNS.CronMinutes,
   cronHours |-> SHEET_COLUMNS.CronHours,
   cronDayOfMonth |-> SHEET_COLUMNS.CronDayOfMonth,
   cronMonth |-> SHEET_COLUMNS.CronMonth,
   cronDayOfWeek |-> SHEET_COLUMNS.CronDayOfWeek, args |-> SHEET_COLUMNS.Args,
   lastSync |-> SHEET_COLUMNS.LastSync, lastRun |-> SHEET_COLUMNS.LastRun]

\* the positions of a column in the header row
ColumnsNamed(columnName) == {i \in 1..Len(headers) : headers[i] = columnName}

\* the first column of the field's name in the header row
FirstColumn(f) ==
  CHOOSE i \in ColumnsNamed(FieldColumns[f]) :
    \A j \in ColumnsNamed(FieldColumns[f]) : i <= j

\* the field has a cell in the raw row: its column is in the header row, and
\* the row is long enough to reach it
HasCell(row, f) ==
  /\ ColumnsNamed(FieldColumns[f]) # {}
  /\ FirstColumn(f) <= Len(row)

\* the cell of the field in the raw row
FieldCell(row, f) == row[FirstColumn(f)]

\* the default of a field, and what a cell that is there decodes to
FieldDefault(f) == IF f = "enabled" THEN << FALSE >> ELSE << "" >>

FieldOfCell(f, v) ==
  IF f = "enabled" THEN << ToBoolean(v) >> ELSE << ToStringOrEmpty(v) >>

\* C27: getAllRows gives a field its default (the empty string, false for
\* enabled) when its column is not in the header row or its cell is past the
\* end of a short row, and decodes every other field from the cell under the
\* column of its name, wherever that column stands
C27_MissingColumnsDefault ==
  decoded # << >> =>
    /\ Len(decoded[1]) = Len(table)
    /\ \A k \in 1..Len(table) : \A f \in DOMAIN FieldColumns :
         << decoded[1][k][f] >> =
           IF HasCell(table[k], f) THEN FieldOfCell(f, FieldCell(table[k], f))
           ELSE FieldDefault(f)

\* a row of thirteen cells has been decoded under the header row of three
\* columns: its id is read, its lastRun is the default
C27_Witness ==
  /\ decoded # << >>
  /\ headers = ShortHeaders
  /\ Len(table[1]) = Len(DefaultHeaders)
  /\ decoded[1][1].enabled
  /\ decoded[1][1].id = "a"
  /\ decoded[1][1].lastRun = ""

\* the header row has a column for every field of an AppRow
HasEveryColumn == \A f \in DOMAIN FieldColumns : ColumnsNamed(FieldColumns[f]) # {}

\* a row has been laid out and the sheet decoded
RoundTrip == original # << >> /\ decoded # << >>

\* C28: under any header row, decoding the raw row that the row layout of
\* syncApps makes of an AppRow gives back the AppRow, equal in every field
C28_RoundTripAnySchema == RoundTrip => decoded[1] = original

\* C28, amended: under a header row that has a column for every field of an
\* AppRow, in any order and with columns of its own, decoding the raw row
\* that the row layout of syncApps makes of an AppRow gives back the AppRow;
\* under a header row without the column of a field the field comes back as
\* its default
C28_RoundTripFullSchema ==
  RoundTrip =>
    /\ HasEveryColumn => decoded[1] = original
    /\ \A f \in DOMAIN FieldColumns :
         << decoded[1][1][f] >> =
           IF ColumnsNamed(FieldColumns[f]) # {} THEN << original[1][f] >>
           ELSE FieldDefault(f)

\* an enabled row with a schedule, a secret and a lastRun has come back
\* from the reversed header row
C28_Witness ==
  /\ RoundTrip
  /\ headers = ReversedHeaders
  /\ original = << RowA >>
  /\ decoded[1] = << RowA >>

----------------------------------------------------------------------------
(* Statements about trigger registration *)

\* the create function of each of the two handlers
CreateFunctionOf ==
  (SYNC_TRIGGER_FUNCTION :> "createSyncTrigger")
    @@ (CRON_TRIGGER_FUNCTION :> "createCronTrigger")

\* the handler functions that have a trigger before or after a step
HandlersAtStep ==
  {triggers[i].handlerFunction : i \in 1..Len(triggers)}
    \cup {triggers'[i].handlerFunction : i \in 1..Len(triggers')}

----------------------------------------------------------------------------
(* Statements about a sync pass and a scheduler pass on one sheet *)

\* the rows whose lastRun updateLastRun has written since the sync pass read
\* the sheet
StampedDuringSync ==
  {i \in 1..Len(seen) :
     /\ i <= Len(before)
     /\ DecodeRow(headers, seen[i]).lastRun # DecodeRow(headers, before[i]).lastRun}

\* C30: when updateLastRun writes the lastRun of a row after a sync pass has
\* read the sheet and before it writes the merged rows, and the pass ends
\* without a storage error, the sheet after the write holds that lastRun for
\* the row whenever the remote list still has its id
C30_LastRunSurvivesSync ==
  [][(PassEnds /\ errors' = {})
       => \A i \in StampedDuringSync :
            DecodeRow(headers, seen[i]).id \in IdsOf(apps)
              => \E j \in 1..Len(table') :
                   /\ DecodeRow(headers, table'[j]).id = DecodeRow(headers, seen[i]).id
                   /\ DecodeRow(headers, table'[j]).lastRun
                        = DecodeRow(headers, seen[i]).lastRun]_vars

----------------------------------------------------------------------------
(* Statements about failures and frames *)

\* C31: when the read of the existing rows is the only call that fails in a
\* sync pass with a non-empty remote list, every row that was in the sheet as
\* the pass began and whose id is in the remote list is in the sheet after
\* the pass with the enabled flag, schedule fields and args it had
C31_ReadFailureKeepsConfig ==
  [][(PassEnds /\ errors' = {"read"})
       => \A i \in 1..Len(before) :
            DecodeRow(headers, before[i]).id \in IdsOf(apps)
              => \E j \in 1..Len(table') :
                   /\ DecodeRow(headers, table'[j]).id = DecodeRow(headers, before[i]).id
                   /\ SameConfig(DecodeRow(headers, table'[j]),
                                 DecodeRow(headers, before[i]))]_vars

\* the data rows whose id is the one updateLastRun is writing for, as the
\* sheet is at the time of the write
RowsWithId == {i \in 1..Len(table) : DecodeRow(headers, table[i]).id = pending[1].appId}

\* the sheet differs from what it was in this one cell at most
OnlyCellChanged(i, j) ==
  /\ Len(table') = Len(table)
  /\ \A k \in 1..Len(table) : \A m \in 1..Len(table[k]) :
       (k # i \/ m # j) => table'[k][m] = table[k][m]

\* C32: the write of updateLastRun(appId, t) sets the Last Run cell of the
\* first row whose id is appId at the time of the write and leaves every
\* other cell as it was, also when a sync pass has changed the rows
\* meanwhile; when no row has the id it writes nothing
C32_StampsFirstRowWithId ==
  [][(pending # << >> /\ pending' = << >>)
       => \/ table' = table
          \/ /\ RowsWithId # {}
             /\ OnlyCellChanged(CHOOSE i \in RowsWithId : \A j \in RowsWithId : i <= j,
                                pending[1].column + 1)]_vars

\* C33: after a sync pass with a non-empty remote list every row of the
\* sheet has an empty apiSecret
C33_SyncLeavesNoSecret ==
  [][PassEnds
       => \A j \in 1..Len(table') : DecodeRow(headers, table'[j]).apiSecret = ""]_vars

\* rows r and u are equal in every field other than lastSync
SameButLastSync(r, u) == [r EXCEPT !.lastSync = ""] = [u EXCEPT !.lastSync = ""]

\* C34: after syncApps has run twice with one non-empty list and no edit in
\* between, the sheet is, in every field other than lastSync, the sheet the
\* first run left
C34_SyncIdempotent ==
  syncs = MaxRuns =>
    /\ Len(table) = Len(before)
    /\ \A i \in 1..Len(table) :
         SameButLastSync(DecodeRow(headers, table[i]), DecodeRow(headers, before[i]))

\* the client call of this turn has returned
TurnSucceeds == CallsNow /\ calls'[Len(calls')].ok

\* C35: a turn of the scheduler's loop leaves the number and the order of the
\* rows and every field of every row other than lastRun as they were; it
\* leaves the lastRun of every row but its own as it was, and its own too
\* unless its client call has returned; the row of a turn whose client call
\* has returned has the instant of the pass as its lastRun, when the sheet
\* has a Last Run column
C35_PassChangesOnlyLastRun ==
  [][LoopTurn
       => /\ Len(table') = Len(table)
          /\ \A k \in 1..Len(table) :
               LET r == DecodeRow(headers, table[k])
                   u == DecodeRow(headers, table'[k])
               IN /\ [u EXCEPT !.lastRun = ""] = [r EXCEPT !.lastRun = ""]
                  /\ (k # idx \/ ~TurnSucceeds) => u.lastRun = r.lastRun
                  /\ (k = idx /\ TurnSucceeds
                        /\ getColumnIndex(headers, SHEET_COLUMNS.LastRun) >= 0)
                       => u.lastRun = cronNow.iso]_vars

\* C36: whether a turn of the scheduler's loop enters the try block for its
\* row is decided by the row's enabled flag, its five schedule fields and the
\* instant of the pass, whatever its lastRun and lastSync: the row is
\* attempted exactly when it is enabled and each of its five fields is due
\* at the instant
C36_DecisionIgnoresLastRun ==
  [][LoopTurn
       => ((attempts' # attempts)
             <=> (/\ cronRows[idx].enabled
                  /\ \A i \in 1..5 : FieldDue(cronNow, cronRows[idx], i)))]_vars

\* the second pass of a minute has executed a row that the first pass of
\* the minute had executed: the row it read has the instant as its lastRun
C36_Witness ==
  /\ crons = 2
  /\ cronPc = "loop"
  /\ \E k \in 1..Len(calls) :
       /\ calls[k].ok
       /\ cronRows[calls[k].row].lastRun = cronNow.iso

----------------------------------------------------------------------------
(* Statements about the Dify client *)

\* a method of the client has just been called
ClientCalled == sent' = sent + 1

\* the reply is no response, a response outside 2xx, or text that is not JSON
Failed(reply) ==
  \/ reply.kind = "throws"
  \/ reply.code \notin 200..299
  \/ reply.kind = "text"

\* C37: executeWorkflowWithApiKey requests /v1/workflows/run, then
\* /api/workflow-run, then /workflows/{appId}/run, each only after the one
\* before it failed; it returns at the first request that succeeds and sends
\* none after it; it raises only when the three requests failed, and what it
\* raises is a DifyAPIError
C37_EndpointsInOrder ==
  [][(ClientCalled /\ outcome'.method = "executeWorkflowWithApiKey")
       => LET n == Len(requests')
              endpoints == << "/v1/workflows/run", "/api/workflow-run",
                              "/workflows/" \o outcome'.appId \o "/run" >>
          IN /\ n \in 1..3
             /\ \A k \in 1..n : requests'[k].path = endpoints[k]
             /\ \A k \in 1..(n - 1) : Failed(requests'[k].reply)
             /\ n < 3 => ~Failed(requests'[n].reply)
             /\ outcome'.raised = IF Failed(requests'[n].reply)
                                    THEN "DifyAPIError" ELSE ""
             /\ (outcome'.value = "response") <=> ~Failed(requests'[n].reply)]_vars

\* the third endpoint answered after the first two had failed
C37_Witness ==
  /\ outcome.method = "executeWorkflowWithApiKey"
  /\ Len(requests) = 3
  /\ Failed(requests[1].reply)
  /\ Failed(requests[2].reply)
  /\ outcome.raised = ""
  /\ outcome.value = "response"

\* the non-empty strings a login response offers as token
TokensIn(body) ==
  {s \in {"t1", "t2"} :
     \/ body.token = << s >>
     \/ body.access_token = << s >>
     \/ body.data = "object" /\ body.nested = << s >>}

\* C38: while the client holds a token, no call of getToken, getApps or
\* executeWorkflow sends a login request, the token stays as it is, and it is
\* the bearer of every request of the call; without a token such a call
\* begins with a login request; a login that got no 2xx response or a
\* response without a token leaves the client without a token and the call
\* raises, and a token the client stores is one the response offered
C38_TokenSession ==
  [][(ClientCalled
        /\ outcome'.method \in {"getToken", "getApps", "executeWorkflow"})
       => /\ token # ""
               => /\ token' = token
                  /\ \A k \in 1..Len(requests') :
                       /\ requests'[k].path # LOGIN_PATH
                       /\ requests'[k].bearer = token
          /\ token = ""
               => /\ Len(requests') >= 1
                  /\ requests'[1].path = LOGIN_PATH
                  /\ \A k \in 2..Len(requests') :
                       /\ requests'[k].path # LOGIN_PATH
                       /\ requests'[k].bearer = token'
                  /\ (\/ Failed(requests'[1].reply)
                      \/ TokensIn(requests'[1].reply.body) = {})
                       => /\ token' = ""
                          /\ outcome'.raised # ""
                          /\ Len(requests') = 1
                  /\ token' # ""
                       => token' \in TokensIn(requests'[1].reply.body)]_vars

\* a later call ran a workflow with the stored token and sent no login
C38_Witness ==
  /\ sent >= 2
  /\ token # ""
  /\ outcome.method = "executeWorkflow"
  /\ outcome.raised = ""
  /\ Len(requests) = 1
  /\ requests[1].bearer = token

====
